---- MODULE Spec2Model ----
(***************************************************************************)
(* usb-gadget: the custom (FunctionFS) USB function.                       *)
(*                                                                         *)
(* Part I   AIO reactor (aio::Driver), its worker thread and the kernel    *)
(*          AIO context it drives.  SpecAio drives the reactor through the *)
(*          methods of aio::Driver in any order (SpecAioFair adds the      *)
(*          scheduling of the worker thread and of the kernel); SpecSender *)
(*          drives it through the methods of EndpointSender.               *)
(* Part II  control endpoint state machine (Custom::event, CtrlSender,     *)
(*          CtrlReceiver).  Specification: SpecCtrl.                       *)
(*                                                                         *)
(* The kernel is the environment: it accepts or rejects a submission,      *)
(* completes an accepted operation at any later time with any result, and  *)
(* answers io_cancel either with the cancelled operation's event (the      *)
(* operation then never reaches the completion ring) or with an error      *)
(* (the operation stays in flight, or had already completed).              *)
(***************************************************************************)
EXTENDS Integers, Sequences, FiniteSets, TLC

\* queue_length the reactor is created with (Driver::new).
QueueLength == 2
\* number of submit calls made on the reactor (ids 0 .. MaxOps-1).
MaxOps == 3
\* number of cancel_all commands issued on the reactor.
MaxCancel == 1

Ids == 0 .. (MaxOps - 1)

\* sign of IoEvent::res: res >= 0 is Ok(buffer), res < 0 is Err(os error).
Results == {"ok", "err"}

\* aio::opcode
PREAD == 0
PWRITE == 1

VARIABLES
    \* ---- aio::Driver (owned by the endpoint handle) ----
    space,          \* Driver::space
    next_id,        \* Driver::next_id
    cmd_ch,         \* mpsc channel cmd_tx -> cmd_rx
    done_ch,        \* mpsc channel done_tx -> done_rx
    eventfd,        \* semaphore eventfd counter
    disconnected,   \* the Driver (cmd_tx, done_rx) has been dropped
    \* ---- kernel AIO context ----
    inflight,       \* operations accepted by io_submit and not yet finished
    ring,           \* completion ring: events posted and not yet fetched
    \* ---- worker thread (Driver::thread) ----
    wpc,            \* position of the worker in its loop
    active,         \* HashMap active (its key set)
    event_queue,    \* VecDeque event_queue
    \* ---- the thread that owns the reactor ----
    api,            \* whose methods are called: aio::Driver's, EndpointSender's, ..
    file_open,      \* the endpoint file is still held open by the registration
    call,           \* method being executed
    cpc,            \* position inside that method
    ret,            \* result of the method (visible at cpc = "ret")
    cur,            \* id of the operation being submitted
    \* ---- history (not program state) ----
    submitted,      \* ids of the operations accepted by the kernel
    reported,       \* ids whose outcome the kernel reported and that were not
                    \* retrieved yet, in the order of the reports
    delivered,      \* how often a retrieval call returned each id
    ncancel,        \* cancel_all commands issued so far
    hist            \* bookkeeping of the running method

aioVars == <<space, next_id, cmd_ch, done_ch, eventfd, disconnected, inflight, ring,
             wpc, active, event_queue, api, file_open, call, cpc, ret, cur,
             submitted, reported, delivered, ncancel, hist>>

VARIABLES
    \* ---- Custom (control endpoint) ----
    ep0,            \* Custom::ep0 (and EndpointIo of an endpoint handle): "unset" before
                    \* the registration sent it ("dropped": the function was dropped
                    \* without sending it), then the Weak<File> is "open" until the
                    \* registration closes the files ("closed")
    setup_event,    \* Custom::setup_event
    resp,           \* the response object the caller holds (it borrows the Custom)
    \* ---- history (not program state) ----
    last,           \* the last method call on the control endpoint and its I/O
    pending,        \* the SETUP event read last, until the next event is read
    since,          \* answers and halts issued on the control file since the last
                    \* event was read
    prev,           \* `pending` and `since` as they were when the last event was read
    seen            \* the lifecycle errors each handle has reported so far

ctrlVars == <<ep0, setup_event, resp, last, pending, since, prev, seen>>

VARIABLES
    \* ---- CustomBuilder ----
    interfaces,     \* CustomBuilder::interfaces: the association of each interface
    descs           \* result of the last ffs_descs() (built: it was called)

descVars == <<interfaces, descs>>

VARIABLES
    \* ---- ffs: encoders and parsers of the FunctionFS blobs ----
    input,          \* the value a function of ffs.rs is applied to
    output          \* what the function returned (fn "none": not applied yet)

ffsVars == <<input, output>>

VARIABLES
    \* ---- CustomFunction::init ----
    builder,        \* CustomFunction::builder: the configuration being registered
    reg             \* the registration: its position in init (pc), the bytes the
                    \* control file accepted, the handles sent to user code, the result

regVars == <<builder, reg>>

VARIABLES
    \* ---- Gadget, RegGadget and the functions of a gadget ----
    funcs,          \* FunctionDirInner of each function: dir, dir_was_set, bound
    gadgets,        \* each gadget: its definition, its RegGadget handle
    configfs,       \* the gadgets whose directory exists in configfs
    removal,        \* what the last remove, drop or remove_all did
    status          \* what Status::state() returned for each function so far

gadgetVars == <<funcs, gadgets, configfs, removal, status>>

VARIABLES
    \* ---- the task that awaits completions (feature tokio) ----
    notify          \* Driver::notify, a tokio::sync::Notify: its permit and its waiter

taskVars == <<notify>>

VARIABLES
    \* ---- value: the one-shot value channel (function/util.rs) ----
    chan,           \* a value channel: its Sender, the mpsc channel inside, its Receiver
    vlast           \* history: the last call on the channel and what it returned,
                    \* the values accepted so far, the number of send calls

valueVars == <<chan, vlast>>

\* the variables of the parts added last
moreVars == <<taskVars, valueVars>>

\* the variables of the parts that follow the control endpoint
laterVars == <<descVars, ffsVars, regVars, gadgetVars, moreVars>>

vars == <<aioVars, ctrlVars, laterVars>>

NoHist == [sub0 |-> 0, next0 |-> 0, space0 |-> 0, errs |-> {}, slot |-> "na", opcode |-> -1,
           cancelled |-> {}, ncancel0 |-> 0, timedout |-> FALSE, data |-> "None",
           open0 |-> TRUE, raced |-> FALSE, resumed |-> FALSE]

\* Driver::new, EndpointIo::new: an empty reactor whose worker waits on the eventfd.
InitAio ==
    /\ space = QueueLength
    /\ next_id = 0
    /\ cmd_ch = <<>>
    /\ done_ch = <<>>
    /\ eventfd = 0
    /\ disconnected = FALSE
    /\ inflight = {}
    /\ ring = <<>>
    /\ wpc = "wait"
    /\ active = {}
    /\ event_queue = <<>>
    /\ api \in {"Driver", "EndpointSender", "EndpointReceiver", "Custom", "CustomBuilder", "Strings", "Descs",
               "EndpointDesc", "CustomFunction", "Gadget", "Event", "Task", "Value"}
    /\ file_open = TRUE
    /\ call = "none"
    /\ cpc = "idle"
    /\ ret = "none"
    /\ cur = 0
    /\ submitted = {}
    /\ reported = <<>>
    /\ delivered = [i \in Ids |-> 0]
    /\ ncancel = 0
    /\ hist = NoHist

\* is_full that never reports a full queue
is_fullNever == space < 0

\* Driver::is_full
is_full == space = 0

\* Driver::is_empty
is_empty == space = QueueLength

\* Op::complete: the CompletedOp made from an event.
Complete(event) == [id |-> event.data, res |-> event.res]

\* done_tx.send(..) that hands every completed operation over twice
DoneSendTwice(ch, ops) == IF disconnected THEN ch ELSE ch \o ops \o ops

\* done_tx.send(..): the result of a send to a dropped receiver is ignored.
DoneSend(ch, ops) == IF disconnected THEN ch ELSE ch \o ops

\* the sequence q without its elements in S
RECURSIVE Without(_, _)
Without(q, S) ==
    IF q = <<>> THEN <<>>
    ELSE IF Head(q) \in S THEN Without(Tail(q), S)
    ELSE <<Head(q)>> \o Without(Tail(q), S)

(***************************************************************************)
(* Kernel                                                                  *)
(***************************************************************************)

\* a kernel that gives the slot of an operation back when it finishes it
KernelCompleteFreeingSlot ==
    \E id \in inflight, r \in Results :
        /\ inflight' = inflight \ {id}
        /\ ring' = Append(ring, [data |-> id, res |-> r])
        /\ eventfd' = eventfd + 1
        /\ reported' = Append(reported, id)
        /\ space' = space + 1
        /\ UNCHANGED <<next_id, cmd_ch, done_ch, disconnected, wpc, active,
                       event_queue, api, ctrlVars, laterVars, file_open, call, cpc, ret, cur, submitted,
                       delivered, ncancel, hist>>

\* The kernel finishes an accepted operation: it posts the event to the
\* completion ring and signals the operation's resfd (the eventfd).
KernelComplete ==
    \E id \in inflight, r \in Results :
        /\ inflight' = inflight \ {id}
        /\ ring' = Append(ring, [data |-> id, res |-> r])
        /\ eventfd' = eventfd + 1
        /\ reported' = Append(reported, id)
        /\ UNCHANGED <<space, next_id, cmd_ch, done_ch, disconnected, wpc, active,
                       event_queue, api, ctrlVars, laterVars, file_open, call, cpc, ret, cur, submitted,
                       delivered, ncancel, hist>>

\* The registration closes the endpoint files (CustomFunction::close, Drop for Custom).
CloseFiles ==
    /\ file_open
    /\ file_open' = FALSE
    /\ UNCHANGED <<space, next_id, cmd_ch, done_ch, eventfd, disconnected, inflight, ring,
                   wpc, active, event_queue, api, ctrlVars, laterVars, call, cpc, ret, cur, submitted,
                   reported, delivered, ncancel, hist>>

\* Sequences without repetition over the set S (the orders in which
\* HashMap::retain may visit the operations that io_cancel cancels).
RECURSIVE InjSeqs(_)
InjSeqs(S) ==
    {<<>>} \cup UNION {{<<x>> \o t : t \in InjSeqs(S \ {x})} : x \in S}

\* The outcomes of calling io_cancel on every operation of `ops`: the sequence of
\* events of the operations the kernel cancelled, in the order of the calls.
\* io_cancel succeeds only for an operation that is still in flight.
CancelOutcomes(ops) ==
    UNION {{[i \in 1 .. Len(q) |-> [data |-> q[i], res |-> rs[i]]] :
                rs \in [1 .. Len(q) -> Results]} : q \in InjSeqs(ops \cap inflight)}

(***************************************************************************)
(* Worker thread: Driver::thread                                           *)
(***************************************************************************)

\* eventfd.read(): blocks while the counter is zero, then decrements it.
WorkerWait ==
    /\ wpc = "wait"
    /\ eventfd > 0
    /\ eventfd' = eventfd - 1
    /\ wpc' = "cmds"
    /\ UNCHANGED <<space, next_id, cmd_ch, done_ch, disconnected, inflight, ring, active,
                   event_queue, api, ctrlVars, laterVars, file_open, call, cpc, ret, cur, submitted,
                   reported, delivered, ncancel, hist>>

\* Ok(Cmd::Insert(op))
WorkerInsert ==
    /\ wpc = "cmds"
    /\ cmd_ch # <<>>
    /\ Head(cmd_ch).cmd = "Insert"
    /\ cmd_ch' = Tail(cmd_ch)
    /\ IF Head(cmd_ch).id \in active
          THEN wpc' = "panic" /\ active' = active
          ELSE wpc' = wpc /\ active' = active \cup {Head(cmd_ch).id}
    /\ UNCHANGED <<space, next_id, done_ch, eventfd, disconnected, inflight, ring,
                   event_queue, api, ctrlVars, laterVars, file_open, call, cpc, ret, cur, submitted,
                   reported, delivered, ncancel, hist>>

\* Ok(Cmd::Remove(id))
WorkerRemove ==
    /\ wpc = "cmds"
    /\ cmd_ch # <<>>
    /\ Head(cmd_ch).cmd = "Remove"
    /\ cmd_ch' = Tail(cmd_ch)
    /\ IF Head(cmd_ch).id \notin active
          THEN wpc' = "panic" /\ active' = active
          ELSE wpc' = wpc /\ active' = active \ {Head(cmd_ch).id}
    /\ UNCHANGED <<space, next_id, done_ch, eventfd, disconnected, inflight, ring,
                   event_queue, api, ctrlVars, laterVars, file_open, call, cpc, ret, cur, submitted,
                   reported, delivered, ncancel, hist>>

\* Ok(Cmd::CancelAll): active.retain(..) calls io_cancel on every tracked operation
\* and sends the event of each cancelled one to the completion channel at once.
WorkerCancelAll ==
    /\ wpc = "cmds"
    /\ cmd_ch # <<>>
    /\ Head(cmd_ch).cmd = "CancelAll"
    /\ cmd_ch' = Tail(cmd_ch)
    /\ \E evs \in CancelOutcomes(active) :
        /\ inflight' = inflight \ {evs[i].data : i \in 1 .. Len(evs)}
        /\ active' = active \ {evs[i].data : i \in 1 .. Len(evs)}
        /\ done_ch' = DoneSend(done_ch, [i \in 1 .. Len(evs) |-> Complete(evs[i])])
        /\ reported' = reported \o [i \in 1 .. Len(evs) |-> evs[i].data]
    /\ UNCHANGED <<space, next_id, eventfd, disconnected, ring, wpc,
                   event_queue, api, ctrlVars, laterVars, file_open, call, cpc, ret, cur, submitted,
                   delivered, ncancel, hist>>

\* a worker that ends as soon as the command channel is disconnected
WorkerCmdsEndOnDisconnect ==
    /\ wpc = "cmds"
    /\ cmd_ch = <<>>
    /\ wpc' = IF disconnected THEN "exit" ELSE "events"
    /\ UNCHANGED <<space, next_id, cmd_ch, done_ch, eventfd, disconnected, inflight, ring,
                   active, event_queue, api, ctrlVars, laterVars, file_open, call, cpc, ret, cur, submitted,
                   reported, delivered, ncancel, hist>>

\* Err(TryRecvError::Disconnected) if active.is_empty() => break 'outer
\* Err(_) => break
WorkerCmdsEnd ==
    /\ wpc = "cmds"
    /\ cmd_ch = <<>>
    /\ wpc' = IF disconnected /\ active = {} THEN "exit" ELSE "events"
    /\ UNCHANGED <<space, next_id, cmd_ch, done_ch, eventfd, disconnected, inflight, ring,
                   active, event_queue, api, ctrlVars, laterVars, file_open, call, cpc, ret, cur, submitted,
                   reported, delivered, ncancel, hist>>

\* The longest prefix of the event queue q whose events belong to distinct
\* operations tracked in the table act: what the while-let loop delivers before
\* it meets an event that matches no tracked operation.
RECURSIVE Matched(_, _)
Matched(q, act) ==
    IF q # <<>> /\ Head(q).data \in act
        THEN <<Head(q)>> \o Matched(Tail(q), act \ {Head(q).data})
        ELSE <<>>

\* the while-let loop popping the event that matches no tracked operation,
\* instead of leaving it at the front of the queue
WorkerEventsDropUnmatched ==
    /\ wpc = "events"
    /\ LET q == event_queue \o ring
           m == Matched(q, active)
       IN /\ ring' = <<>>
          /\ event_queue' = SubSeq(q, Len(m) + 2, Len(q))
          /\ active' = active \ {m[i].data : i \in 1 .. Len(m)}
          /\ done_ch' = DoneSend(done_ch, [i \in 1 .. Len(m) |-> Complete(m[i])])
    /\ wpc' = "wait"
    /\ UNCHANGED <<space, next_id, cmd_ch, eventfd, disconnected, inflight,
                   api, ctrlVars, laterVars, file_open, call, cpc, ret, cur, submitted,
                   reported, delivered, ncancel, hist>>

\* Fetch AIO events (io_getevents until it returns none) and process them:
\*   while let Some(event) = event_queue.front() {
\*       match active.remove(&event.data) { Some(op) => done_tx.send(..), None => break } }
WorkerEvents ==
    /\ wpc = "events"
    /\ LET q == event_queue \o ring
           m == Matched(q, active)
       IN /\ ring' = <<>>
          /\ event_queue' = SubSeq(q, Len(m) + 1, Len(q))
          /\ active' = active \ {m[i].data : i \in 1 .. Len(m)}
          /\ done_ch' = DoneSend(done_ch, [i \in 1 .. Len(m) |-> Complete(m[i])])
    /\ wpc' = "wait"
    /\ UNCHANGED <<space, next_id, cmd_ch, eventfd, disconnected, inflight,
                   api, ctrlVars, laterVars, file_open, call, cpc, ret, cur, submitted,
                   reported, delivered, ncancel, hist>>

Worker ==
    \/ WorkerWait
    \/ WorkerInsert
    \/ WorkerRemove
    \/ WorkerCancelAll
    \/ WorkerCmdsEnd
    \/ WorkerEvents

(***************************************************************************)
(* The thread that owns the reactor.  A method runs as a sequence of       *)
(* steps; `call` names the method and `cpc` the step it is at.  A blocking *)
(* done_rx.recv() is a step that is enabled only while the completion      *)
(* channel holds a value.  Driver::cancel(handle) is dead code of the      *)
(* crate (no endpoint method calls it) and is left out.                    *)
(***************************************************************************)

DriverCalls == {"submit", "completed", "wait_completed", "completed_timeout",
                "try_completed", "cancel_all"}
SenderCalls == {"send", "send_timeout", "try_send", "ready", "ready_timeout", "try_ready",
                "flush", "flush_timeout", "send_and_flush", "send_and_flush_timeout",
                "cancel"}

ReceiverCalls == {"recv", "recv_timeout", "try_recv", "fetch", "fetch_timeout", "try_fetch",
                  "recv_and_fetch", "recv_and_fetch_timeout", "cancel"}

\* the methods of the handle that `api` names
Calls ==
    CASE api = "Driver" -> DriverCalls
      [] api = "EndpointSender" -> SenderCalls
      [] api = "EndpointReceiver" -> ReceiverCalls
      [] OTHER -> {}

\* methods that hand an operation to Driver::submit
Submitting == {"submit", "send", "send_timeout", "try_send", "send_and_flush",
               "send_and_flush_timeout", "recv", "recv_timeout", "try_recv",
               "recv_and_fetch", "recv_and_fetch_timeout"}
\* methods that call Driver::cancel_all
Cancelling == {"cancel_all", "cancel", "send_and_flush_timeout", "recv_and_fetch_timeout",
               "drop"}

\* first step of a method
First(m) ==
    CASE m \in {"send", "ready", "send_and_flush", "send_and_flush_timeout"} -> "ready"
      [] m \in {"send_timeout", "ready_timeout"} -> "ready_to"
      [] m \in {"try_send", "try_ready"} -> "try_ready"
      [] m = "flush" -> "flush"
      [] m = "flush_timeout" -> "flush_to"
      [] m \in {"cancel_all", "cancel", "drop"} -> "cancel_send"
      [] m \in {"submit", "try_recv", "recv_and_fetch", "recv_and_fetch_timeout"} -> "submit"
      [] m \in {"recv", "recv_timeout"} -> "is_ready"
      [] m = "fetch" -> "fetch"
      [] m = "fetch_timeout" -> "fetch_to"
      [] m = "try_fetch" -> "try_fetch"
      [] m \in {"completed", "wait_completed"} -> "completed"
      [] m = "completed_timeout" -> "completed_to"
      [] m = "try_completed" -> "try_completed"

Goto(p, r) == cpc' = p /\ ret' = r
Return(r) == Goto("ret", r)

\* A method of the set S is called.  The bounds of the model limit how many
\* operations are submitted and how many cancel_all commands are issued.
CallStartOf(S) ==
    /\ cpc = "idle"
    /\ \E m \in S \cup {"drop"} :
        /\ m \in Submitting => (next_id < MaxOps \/ (m = "submit" /\ is_full))
        /\ m \in Cancelling => ncancel < MaxCancel
        /\ call' = m
        /\ Goto(First(m), "none")
    /\ hist' = [NoHist EXCEPT !.sub0 = Cardinality(submitted), !.next0 = next_id,
                                !.space0 = space, !.ncancel0 = ncancel,
                                !.open0 = file_open]
    /\ UNCHANGED <<space, next_id, cmd_ch, done_ch, eventfd, disconnected, inflight, ring,
                   wpc, active, event_queue, api, ctrlVars, laterVars, file_open, cur, submitted,
                   reported, delivered, ncancel>>

\* Any method of the handle is called.
CallStart == CallStartOf(Calls)

\* most operations submitted in the specifications with fairness conditions
MaxFairOps == 2

\* the call that starts is within the bound of those specifications
FewOps == call' \in Submitting => (next_id < MaxFairOps \/ (call' = "submit" /\ is_full))

\* Any method of the handle is called, with at most MaxFairOps submissions.
CallStartFew == CallStart /\ FewOps

\* A caller that only enqueues without waiting, polls and cancels.
CallStartPolling ==
    /\ CallStartOf(Calls \cap {"try_send", "try_ready", "try_recv", "try_fetch", "cancel"})
    /\ FewOps

\* The method returns to its caller.
CallReturn ==
    /\ cpc = "ret"
    /\ call' = "none"
    /\ Goto("idle", "none")
    /\ hist' = NoHist
    /\ UNCHANGED <<space, next_id, cmd_ch, done_ch, eventfd, disconnected, inflight, ring,
                   wpc, active, event_queue, api, ctrlVars, laterVars, file_open, cur, submitted,
                   reported, delivered, ncancel>>

\* done_rx.recv() / try_recv() / recv_timeout() hands out the oldest completed
\* operation, and the retrieval call increments space.
Retrieve ==
    /\ done_ch # <<>>
    /\ done_ch' = Tail(done_ch)
    /\ space' = space + 1
    /\ delivered' = [delivered EXCEPT ![Head(done_ch).id] = @ + 1]
    /\ reported' = Without(reported, {Head(done_ch).id})
    /\ hist' = [hist EXCEPT !.errs =
                    IF Head(done_ch).res = "err" THEN @ \cup {Head(done_ch).id} ELSE @,
                             !.data = IF Head(done_ch).res = "err" THEN "OpErr" ELSE "Some"]

\* comp.result()?
Failed == Head(done_ch).res = "err"

\* Ok(Some(comp.result()?.try_into().unwrap()))
Fetched == IF Failed THEN "OpErr" ELSE "Some"

retrUnchanged == <<next_id, cmd_ch, eventfd, disconnected, inflight, ring, wpc, active,
                   event_queue, api, ctrlVars, laterVars, file_open, call, cur, submitted, ncancel>>

noRetr == <<space, done_ch, delivered, reported, hist>>

\* done_rx.recv_timeout(timeout) returns Err(Timeout): nothing is retrieved.
Expired ==
    /\ done_ch = <<>>
    /\ hist' = [hist EXCEPT !.timedout = TRUE]
    /\ UNCHANGED <<space, done_ch, delivered, reported>>

\* Driver::completed:
\*   if self.is_empty() { return None }
\*   let res = self.done_rx.recv().unwrap(); self.space += 1; Some(res)
\* Driver::wait_completed does the same with try_completed and notify.notified().
Completed ==
    /\ cpc = "completed"
    /\ IF is_empty
          THEN Return("None") /\ UNCHANGED noRetr
          ELSE /\ Retrieve
               /\ IF Failed THEN Return("SomeErr") ELSE Return("SomeOk")
    /\ UNCHANGED retrUnchanged

\* Driver::completed_timeout:
\*   if self.is_empty() { return None }
\*   let res = self.done_rx.recv_timeout(timeout).ok();
\*   if res.is_some() { self.space += 1 }
CompletedTimeout ==
    /\ cpc = "completed_to"
    /\ \/ /\ is_empty
          /\ Return("None")
          /\ UNCHANGED noRetr
       \/ /\ ~is_empty
          /\ Retrieve
          /\ IF Failed THEN Return("SomeErr") ELSE Return("SomeOk")
       \/ /\ ~is_empty
          /\ Expired
          /\ Return("None")
    /\ UNCHANGED retrUnchanged

\* try_completed incrementing space whether or not an operation was received
TryCompletedAlwaysCounting ==
    /\ cpc = "try_completed"
    /\ IF done_ch # <<>>
          THEN /\ Retrieve
               /\ IF Failed THEN Return("SomeErr") ELSE Return("SomeOk")
          ELSE /\ Return("None")
               /\ space' = space + 1
               /\ UNCHANGED <<done_ch, delivered, reported, hist>>
    /\ UNCHANGED retrUnchanged

\* Driver::try_completed:
\*   let res = self.done_rx.try_recv().ok();
\*   if res.is_some() { self.space += 1 }
TryCompleted ==
    /\ cpc = "try_completed"
    /\ IF done_ch # <<>>
          THEN /\ Retrieve
               /\ IF Failed THEN Return("SomeErr") ELSE Return("SomeOk")
          ELSE Return("None") /\ UNCHANGED noRetr
    /\ UNCHANGED retrUnchanged

\* EndpointSender::ready: while io.aio.is_full() { io.aio.completed().unwrap().result()?; }
Ready ==
    /\ cpc = "ready"
    /\ IF is_full
          THEN /\ Retrieve
               /\ IF Failed THEN Return("OpErr") ELSE Goto(cpc, ret)
          ELSE /\ IF call = "ready" THEN Return("Ok") ELSE Goto("try_ready", ret)
               /\ UNCHANGED noRetr
    /\ UNCHANGED retrUnchanged

\* EndpointSender::ready_timeout:
\*   while io.aio.is_full() {
\*       io.aio.completed_timeout(timeout).ok_or_else(|| TimedOut)?.result()?; }
ReadyTimeout ==
    /\ cpc = "ready_to"
    /\ \/ /\ is_full
          /\ Retrieve
          /\ IF Failed THEN Return("OpErr") ELSE Goto(cpc, ret)
       \/ /\ is_full
          /\ Expired
          /\ Return("TimedOut")
       \/ /\ ~is_full
          /\ IF call = "ready_timeout" THEN Return("Ok") ELSE Goto("try_ready", ret)
          /\ UNCHANGED noRetr
    /\ UNCHANGED retrUnchanged

\* try_ready dropping the results of the operations it retrieves
TryReadyIgnoringErrors ==
    /\ cpc = "try_ready"
    /\ IF done_ch # <<>>
          THEN /\ Retrieve
               /\ Goto(cpc, ret)
          ELSE /\ IF call = "try_ready" THEN Return("Ok") ELSE Goto("submit", ret)
               /\ UNCHANGED noRetr
    /\ UNCHANGED retrUnchanged

\* EndpointSender::try_ready: while let Some(comp) = io.aio.try_completed() { comp.result()?; }
TryReady ==
    /\ cpc = "try_ready"
    /\ IF done_ch # <<>>
          THEN /\ Retrieve
               /\ IF Failed THEN Return("OpErr") ELSE Goto(cpc, ret)
          ELSE /\ IF call = "try_ready" THEN Return("Ok") ELSE Goto("submit", ret)
               /\ UNCHANGED noRetr
    /\ UNCHANGED retrUnchanged

\* flush that takes an empty completion channel for an empty queue
FlushWithoutWaiting ==
    /\ cpc = "flush"
    /\ IF is_empty \/ done_ch = <<>>
          THEN Return("Ok") /\ UNCHANGED noRetr
          ELSE /\ Retrieve
               /\ IF Failed THEN Return("OpErr") ELSE Goto(cpc, ret)
    /\ UNCHANGED retrUnchanged

\* EndpointSender::flush: while let Some(comp) = io.aio.completed() { comp.result()?; }
Flush ==
    /\ cpc = "flush"
    /\ IF is_empty
          THEN Return("Ok") /\ UNCHANGED noRetr
          ELSE /\ Retrieve
               /\ IF Failed THEN Return("OpErr") ELSE Goto(cpc, ret)
    /\ UNCHANGED retrUnchanged

\* a flush_timeout that cancels the queue itself when it fails
AfterFlushTimeoutCancelling(res) ==
    IF res # "Ok"
        THEN Goto("cancel_send", res)
        ELSE Return(res)

\* EndpointSender::send_and_flush_timeout after its flush_timeout returned res:
\*   if res.is_err() { self.cancel()?; }  res
AfterFlushTimeout(res) ==
    IF call = "send_and_flush_timeout" /\ res # "Ok"
        THEN Goto("cancel_send", res)
        ELSE Return(res)

\* EndpointSender::flush_timeout:
\*   while let Some(comp) = io.aio.completed_timeout(timeout) { comp.result()?; }
\*   if io.aio.is_empty() { Ok(()) } else { Err(TimedOut) }
FlushTimeout ==
    /\ cpc = "flush_to"
    /\ \/ /\ is_empty
          /\ AfterFlushTimeout("Ok")
          /\ UNCHANGED noRetr
       \/ /\ ~is_empty
          /\ Retrieve
          /\ IF Failed THEN AfterFlushTimeout("OpErr") ELSE Goto(cpc, ret)
       \/ /\ ~is_empty
          /\ Expired
          /\ AfterFlushTimeout("TimedOut")
    /\ UNCHANGED retrUnchanged

\* the opcode a handle submits: PWRITE by try_send, PREAD by try_recv
Opcodes ==
    CASE api = "EndpointSender" -> {PWRITE}
      [] api = "EndpointReceiver" -> {PREAD}
      [] OTHER -> {PREAD, PWRITE}

\* a submit that hands the operation to the kernel without sending the Insert
\* command to the worker
SubmitInsertUnregistered ==
    /\ cpc = "submit"
    /\ IF is_full
          THEN /\ Return("WouldBlock")
               /\ UNCHANGED <<next_id, cur>>
               /\ hist' = [hist EXCEPT !.slot = "full"]
          ELSE /\ cur' = next_id
               /\ next_id' = next_id + 1
               /\ Goto("sub_kernel", ret)
               /\ \E oc \in Opcodes :
                    hist' = [hist EXCEPT !.slot = "free", !.opcode = oc]
    /\ UNCHANGED <<space, cmd_ch, done_ch, eventfd, disconnected, inflight, ring, wpc, active,
                   event_queue, api, ctrlVars, laterVars, file_open, call, submitted, reported, delivered,
                   ncancel>>

\* a submit that gives every operation the same id
SubmitInsertReusingId ==
    /\ cpc = "submit"
    /\ IF is_full \/ Len(cmd_ch) >= MaxOps
          THEN /\ Return("WouldBlock")
               /\ UNCHANGED <<cmd_ch, cur>>
               /\ hist' = [hist EXCEPT !.slot = "full"]
          ELSE /\ cur' = next_id
               /\ cmd_ch' = Append(cmd_ch, [cmd |-> "Insert", id |-> next_id])
               /\ Goto("sub_kernel", ret)
               /\ \E oc \in Opcodes :
                    hist' = [hist EXCEPT !.slot = "free", !.opcode = oc]
    /\ UNCHANGED <<space, next_id, done_ch, eventfd, disconnected, inflight, ring, wpc, active,
                   event_queue, api, ctrlVars, laterVars, file_open, call, submitted, reported, delivered,
                   ncancel>>

\* EndpointSender::try_send after try_ready, EndpointReceiver::try_recv:
\*   let file = io.file()?;
\* (BrokenPipe once the registration has closed the files), then
\* Driver::submit, first part:
\*   if self.is_full() { return Err(WouldBlock) }
\*   let id = self.next_id; self.next_id = self.next_id.wrapping_add(1);
\*   self.cmd_tx.send(Cmd::Insert(op))
SubmitInsert ==
    /\ cpc = "submit"
    /\ IF api # "Driver" /\ ~file_open
          THEN /\ Return("BrokenPipe")
               /\ UNCHANGED <<next_id, cmd_ch, cur>>
               /\ hist' = [hist EXCEPT !.slot = IF is_full THEN "full" ELSE "free"]
          ELSE IF is_full
                  THEN /\ Return("WouldBlock")
                       /\ UNCHANGED <<next_id, cmd_ch, cur>>
                       /\ hist' = [hist EXCEPT !.slot = "full"]
                  ELSE /\ cur' = next_id
                       /\ next_id' = next_id + 1
                       /\ cmd_ch' = Append(cmd_ch, [cmd |-> "Insert", id |-> next_id])
                       /\ Goto("sub_kernel", ret)
                       /\ \E oc \in Opcodes :
                            hist' = [hist EXCEPT !.slot = "free", !.opcode = oc]
    /\ UNCHANGED <<space, done_ch, eventfd, disconnected, inflight, ring, wpc, active,
                   event_queue, api, ctrlVars, laterVars, file_open, call, submitted, reported, delivered,
                   ncancel>>

\* a submit that leaves a rejected operation in the worker's table
SubmitKernelKeepingRejected ==
    /\ cpc = "sub_kernel"
    /\ \/ /\ inflight' = inflight \cup {cur}
          /\ space' = space - 1
          /\ submitted' = submitted \cup {cur}
          /\ Goto("sub_wake", "Ok")
       \/ /\ \E r \in {"NotAccepted", "KernelErr"} : Goto("sub_wake", r)
          /\ UNCHANGED <<inflight, space, submitted>>
    /\ UNCHANGED <<next_id, cmd_ch, done_ch, eventfd, disconnected, ring, wpc, active,
                   event_queue, api, ctrlVars, laterVars, file_open, call, cur, reported, delivered,
                   ncancel, hist>>

\* Driver::submit, second part: match sys::submit(aio, 1, iocbs)
\*   Ok(1) => self.space -= 1
\*   res   => self.cmd_tx.send(Cmd::Remove(id)); Ok(_) is WouldBlock, Err(err) is err
SubmitKernel ==
    /\ cpc = "sub_kernel"
    /\ \/ /\ inflight' = inflight \cup {cur}
          /\ space' = space - 1
          /\ submitted' = submitted \cup {cur}
          /\ Goto("sub_wake", "Ok")
          /\ UNCHANGED cmd_ch
       \/ /\ \E r \in {"NotAccepted", "KernelErr"} : Goto("sub_wake", r)
          /\ cmd_ch' = Append(cmd_ch, [cmd |-> "Remove", id |-> cur])
          /\ UNCHANGED <<inflight, space, submitted>>
    /\ UNCHANGED <<next_id, done_ch, eventfd, disconnected, ring, wpc, active,
                   event_queue, api, ctrlVars, laterVars, file_open, call, cur, reported, delivered,
                   ncancel, hist>>

\* Driver::submit, last part: self.eventfd.write(1), then the result is returned;
\* send_and_flush goes on with flush, send_and_flush_timeout with flush_timeout,
\* after a successful send, recv_and_fetch with fetch and recv_and_fetch_timeout
\* with fetch_timeout after a successful try_recv; recv and recv_timeout return
\* the data they fetched before the try_recv.
SubmitWake ==
    /\ cpc = "sub_wake"
    /\ eventfd' = eventfd + 1
    /\ CASE call = "send_and_flush_timeout" /\ ret = "Ok" -> Goto("flush_to", ret)
         [] call = "send_and_flush" /\ ret = "Ok" -> Goto("flush", ret)
         [] call = "recv_and_fetch_timeout" /\ ret = "Ok" -> Goto("fetch_to", ret)
         [] call = "recv_and_fetch" /\ ret = "Ok" -> Goto("fetch", ret)
         [] call \in {"recv", "recv_timeout"} /\ ret = "Ok" -> Return(hist.data)
         [] OTHER -> Return(ret)
    /\ UNCHANGED <<space, next_id, cmd_ch, done_ch, disconnected, inflight, ring, wpc,
                   active, event_queue, api, ctrlVars, laterVars, file_open, call, cur, submitted, reported,
                   delivered, ncancel, hist>>

\* Driver::cancel_all, first part: self.cmd_tx.send(Cmd::CancelAll)
CancelSend ==
    /\ cpc = "cancel_send"
    /\ cmd_ch' = Append(cmd_ch, [cmd |-> "CancelAll", id |-> 0])
    /\ ncancel' = ncancel + 1
    /\ Goto("cancel_wake", ret)
    /\ hist' = [hist EXCEPT !.cancelled = inflight]
    /\ UNCHANGED <<space, next_id, done_ch, eventfd, disconnected, inflight, ring, wpc,
                   active, event_queue, api, ctrlVars, laterVars, file_open, call, cur, submitted, reported,
                   delivered>>

\* Driver::cancel_all, second part: self.eventfd.write(1).
\* Drop::drop for Driver ends here; the fields of the Driver are dropped next.
CancelWake ==
    /\ cpc = "cancel_wake"
    /\ eventfd' = eventfd + 1
    /\ CASE call = "drop" -> Goto("drop_fields", ret)
         [] call = "cancel_all" -> Return("Ok")
         [] OTHER -> Goto("cancel_drain", ret)
    /\ UNCHANGED <<space, next_id, cmd_ch, done_ch, disconnected, inflight, ring, wpc, active,
                   event_queue, api, ctrlVars, laterVars, file_open, call, cur, submitted, reported,
                   delivered, ncancel, hist>>

\* The fields of the dropped Driver are dropped: cmd_tx (the command channel is
\* disconnected, which wakes nobody) and done_rx (what it holds is lost).
DropFields ==
    /\ cpc = "drop_fields"
    /\ disconnected' = TRUE
    /\ done_ch' = <<>>
    /\ Goto("gone", ret)
    /\ UNCHANGED <<space, next_id, cmd_ch, eventfd, inflight, ring, wpc, active, event_queue,
                   api, ctrlVars, laterVars, file_open, call, cur, submitted, reported, delivered, ncancel,
                   hist>>

\* cancel that takes an empty completion channel for an empty queue
CancelDrainAvailable ==
    /\ cpc = "cancel_drain"
    /\ IF is_empty \/ done_ch = <<>>
          THEN /\ Return(IF call = "cancel" THEN "Ok" ELSE ret)
               /\ UNCHANGED noRetr
          ELSE /\ Retrieve
               /\ Goto(cpc, ret)
    /\ UNCHANGED retrUnchanged

\* EndpointSender::cancel:  while io.aio.completed().is_some() {}
\* send_and_flush_timeout returns the result of its flush_timeout after the cancel.
CancelDrain ==
    /\ cpc = "cancel_drain"
    /\ IF is_empty
          THEN /\ Return(IF call = "cancel" THEN "Ok" ELSE ret)
               /\ UNCHANGED noRetr
          ELSE /\ Retrieve
               /\ Goto(cpc, ret)
    /\ UNCHANGED retrUnchanged

(***************************************************************************)
(* EndpointReceiver                                                        *)
(***************************************************************************)

\* What a receiver method does with the result d of its fetch, fetch_timeout or
\* try_fetch:
\*   recv:                   let data = ..fetch()?; self.try_recv(buf)?; Ok(data)
\*   recv_timeout:           let data = ..?; if self.is_ready() { self.try_recv(buf)?; } Ok(data)
\*   recv_and_fetch:         Ok(self.fetch()?.unwrap())
\*   recv_and_fetch_timeout: Ok(data) => Ok(data.unwrap()), Err(err) => { self.cancel()?; Err(err) }
AfterFetch(d) ==
    CASE call = "recv" /\ d # "OpErr" -> Goto("submit", ret)
      [] call = "recv_timeout" /\ d # "OpErr" -> Goto("is_ready2", ret)
      [] call = "recv_and_fetch_timeout" /\ d = "OpErr" -> Goto("cancel_send", d)
      [] call \in {"recv_and_fetch", "recv_and_fetch_timeout"} /\ d = "None" -> Return("Panic")
      [] OTHER -> Return(d)

\* EndpointReceiver::recv, recv_timeout, first part:
\*   if self.is_ready() { self.try_fetch()? } else { self.fetch()? }   (fetch_timeout(timeout)?)
RecvIsReady ==
    /\ cpc = "is_ready"
    /\ Goto(IF ~is_full THEN "try_fetch" ELSE IF call = "recv" THEN "fetch" ELSE "fetch_to", ret)
    /\ UNCHANGED noRetr
    /\ UNCHANGED retrUnchanged

\* EndpointReceiver::recv_timeout, last part: if self.is_ready() { self.try_recv(buf)?; }
RecvTimeoutIsReady ==
    /\ cpc = "is_ready2"
    /\ IF ~is_full THEN Goto("submit", ret) ELSE Return(hist.data)
    /\ UNCHANGED noRetr
    /\ UNCHANGED retrUnchanged

\* EndpointReceiver::fetch:
\*   let Some(comp) = io.aio.completed() else { return Ok(None) };
Fetch ==
    /\ cpc = "fetch"
    /\ IF is_empty
          THEN AfterFetch("None") /\ UNCHANGED noRetr
          ELSE Retrieve /\ AfterFetch(Fetched)
    /\ UNCHANGED retrUnchanged

\* EndpointReceiver::fetch_timeout:
\*   let Some(comp) = io.aio.completed_timeout(timeout) else { return Ok(None) };
FetchTimeout ==
    /\ cpc = "fetch_to"
    /\ \/ /\ is_empty
          /\ AfterFetch("None")
          /\ UNCHANGED noRetr
       \/ /\ ~is_empty
          /\ Retrieve
          /\ AfterFetch(Fetched)
       \/ /\ ~is_empty
          /\ Expired
          /\ AfterFetch("None")
    /\ UNCHANGED retrUnchanged

\* EndpointReceiver::try_fetch:
\*   let Some(comp) = io.aio.try_completed() else { return Ok(None) };
TryFetch ==
    /\ cpc = "try_fetch"
    /\ IF done_ch # <<>>
          THEN Retrieve /\ AfterFetch(Fetched)
          ELSE AfterFetch("None") /\ UNCHANGED noRetr
    /\ UNCHANGED retrUnchanged

(***************************************************************************)
(* Part II: the control endpoint.  Custom, CtrlSender and CtrlReceiver are *)
(* used by one thread; every method is one step.  The environment decides  *)
(* which event the kernel delivers and whether an I/O on the control file  *)
(* succeeds, and the registration may close the files at any time.         *)
(***************************************************************************)

\* ffs::event
BIND == 0
UNBIND == 1
ENABLE == 2
DISABLE == 3
SETUP == 4
SUSPEND == 5
RESUME == 6

\* ffs::DIR_OUT
DIR_OUT == 0

\* ffs::DIR_IN
DIR_IN == 128

\* event_type of the raw events the kernel delivers (7: a type unknown to the crate)
EventTypes == {ENABLE, DISABLE, SETUP, RESUME + 1}

\* bmRequestType of the control requests the host sends
RequestTypes == {33, 161}

RawEvents == [event_type : EventTypes, request_type : RequestTypes]

\* the outcomes of an I/O that is made only if b holds
Outcomes(b) == IF b THEN BOOLEAN ELSE {TRUE}

\* the raw events a read may deliver (only a SETUP event carries a request)
Readable(ok) ==
    IF ok THEN {e \in RawEvents : e.event_type # SETUP => e.request_type = 33}
          ELSE {[event_type |-> ENABLE, request_type |-> 33]}

NoCall == [call |-> "none", pre |-> "None", open |-> FALSE, resp |-> "none",
           io |-> <<>>, ret |-> "none", event |-> "none", life |-> "unset"]

Handles == {"Custom", "Endpoint"}

NoPending == [setup |-> "None", fate |-> "na"]

\* CustomBuilder::build: the control file is not known before the registration.
InitCtrl ==
    /\ ep0 = "unset"
    /\ setup_event = "None"
    /\ resp = "none"
    /\ last = NoCall
    /\ pending = NoPending
    /\ since = <<>>
    /\ prev = [setup |-> "None", fate |-> "na", io |-> <<>>]
    /\ seen = [h \in Handles |-> {}]

\* Custom::ep0 succeeds: the value was sent and the Weak<File> upgrades.
Upgrade == ep0 = "open"

\* an ep0() / file() that reports every failure as BrokenPipe
FileResultNeverBlocking(l) == IF l = "open" THEN "Ok" ELSE "BrokenPipe"

\* Custom::ep0, and value::Receiver::get followed by EndpointIo::file, in the
\* lifecycle state l: RecvError::Empty is WouldBlock, RecvError::Disconnected is
\* BrokenPipe, and a Weak<File> that does not upgrade is BrokenPipe.
FileResult(l) ==
    CASE l = "unset" -> "WouldBlock"
      [] l = "dropped" -> "BrokenPipe"
      [] l = "closed" -> "BrokenPipe"
      [] OTHER -> "Ok"

\* the error of a method that failed: the error of ep0() or that of its I/O
Error == IF Upgrade THEN "Err" ELSE FileResult(ep0)

\* the handle h has reported the result r
Seen(h, r) ==
    seen' = IF r \in {"WouldBlock", "BrokenPipe"}
               THEN [seen EXCEPT ![h] = @ \cup {r}]
               ELSE seen

\* the halt sequence of a direction: a 1-byte read halts a device-to-host
\* transfer, a 1-byte write a host-to-device transfer.
HaltOp(dir) == IF dir = "DeviceToHost" THEN "read1" ELSE "write1"

\* one I/O on the control file and whether it succeeded
Io(op, ok) == <<[op |-> op, ok |-> ok]>>

\* Event::from_ffs: the variant made from a raw event.
from_ffs(raw) ==
    CASE raw.event_type = BIND -> "Bind"
      [] raw.event_type = UNBIND -> "Unbind"
      [] raw.event_type = ENABLE -> "Enable"
      [] raw.event_type = DISABLE -> "Disable"
      [] raw.event_type = SUSPEND -> "Suspend"
      [] raw.event_type = RESUME -> "Resume"
      [] raw.event_type = SETUP ->
            IF (raw.request_type \div DIR_IN) % 2 # 0
                THEN "SetupDeviceToHost"
                ELSE "SetupHostToDevice"
      [] OTHER -> "Unknown"

\* an Event::from_ffs in which every event but SETUP clears custom.setup_event
SetupOfClearing(event, se) ==
    CASE event = "SetupDeviceToHost" -> "DeviceToHost"
      [] event = "SetupHostToDevice" -> "HostToDevice"
      [] OTHER -> "None"

\* what Event::from_ffs stores in custom.setup_event (se: the value before)
SetupOf(event, se) ==
    CASE event = "SetupDeviceToHost" -> "DeviceToHost"
      [] event = "SetupHostToDevice" -> "HostToDevice"
      [] OTHER -> se

\* the response object inside the event
RespOf(event) ==
    CASE event = "SetupDeviceToHost" -> "CtrlSender"
      [] event = "SetupHostToDevice" -> "CtrlReceiver"
      [] OTHER -> "none"

\* a clear_prev_event that ignores the result of its halt I/O
clear_prev_eventIgnoringErrors(ok) ==
    IF ~Upgrade
        THEN [err |-> TRUE, io |-> <<>>, setup_event |-> setup_event]
    ELSE IF setup_event = "None"
        THEN [err |-> FALSE, io |-> <<>>, setup_event |-> "None"]
    ELSE [err |-> FALSE, io |-> Io(HaltOp(setup_event), ok), setup_event |-> "None"]

\* Custom::clear_prev_event: ep0()?, then setup_event.take() and the halt I/O of
\* the direction taken; ok: whether that I/O succeeds.
clear_prev_event(ok) ==
    IF ~Upgrade
        THEN [err |-> TRUE, io |-> <<>>, setup_event |-> setup_event]
    ELSE IF setup_event = "None"
        THEN [err |-> FALSE, io |-> <<>>, setup_event |-> "None"]
    ELSE [err |-> ~ok, io |-> Io(HaltOp(setup_event), ok), setup_event |-> "None"]

\* Custom::read_event: ep0()?, a read of Event::SIZE bytes (ok: it succeeds and
\* returns SIZE bytes), Event::from_ffs; se: setup_event before the call.
read_event(raw, ok, se) ==
    IF ~Upgrade
        THEN [err |-> TRUE, io |-> <<>>, setup_event |-> se, event |-> "none"]
    ELSE IF ~ok
        THEN [err |-> TRUE, io |-> Io("read_event", FALSE), setup_event |-> se,
              event |-> "none"]
    ELSE [err |-> FALSE, io |-> Io("read_event", TRUE),
          setup_event |-> SetupOf(from_ffs(raw), se), event |-> from_ffs(raw)]

\* no event is read: Ok(None), or the error of clear_prev_event / ep0()
NoRead(err, se) == [err |-> err, io |-> <<>>, setup_event |-> se, event |-> "none"]

\* A method of Custom that may read an event has run: c is the result of its
\* clear_prev_event part, r of its read_event part.
EventDone(m, c, r) ==
    /\ setup_event' = r.setup_event
    /\ resp' = RespOf(r.event)
    /\ last' = [call |-> m, pre |-> setup_event, open |-> Upgrade, resp |-> "none",
                io |-> c.io \o r.io,
                ret |-> IF r.err THEN Error ELSE IF r.event = "none" THEN "None" ELSE "Event",
                event |-> r.event, life |-> ep0]
    /\ Seen("Custom", IF r.err THEN Error ELSE "Ok")
    /\ IF r.event # "none"
          THEN /\ prev' = [setup |-> pending.setup, fate |-> pending.fate,
                           io |-> since \o c.io]
               /\ since' = <<>>
               /\ pending' = IF RespOf(r.event) # "none"
                                THEN [setup |-> r.setup_event, fate |-> "held"]
                                ELSE NoPending
          ELSE /\ since' = since \o c.io
               /\ UNCHANGED <<prev, pending>>
    /\ UNCHANGED <<ep0, aioVars, laterVars>>

\* Custom::event: self.clear_prev_event()?; self.read_event()
\* (the read blocks until the kernel has an event)
Event ==
    /\ resp = "none"
    /\ \E okc \in Outcomes(Upgrade /\ setup_event # "None"), okr \in Outcomes(Upgrade) :
       \E raw \in Readable(okc /\ okr) :
        LET c == clear_prev_event(okc)
        IN EventDone("event", c,
                     IF c.err THEN NoRead(TRUE, c.setup_event)
                              ELSE read_event(raw, okr, c.setup_event))

\* Custom::try_event:
\*   self.clear_prev_event()?;
\*   if self.has_event() { Ok(Some(self.read_event()?)) } else { Ok(None) }
TryEvent ==
    /\ resp = "none"
    /\ \E okc \in Outcomes(Upgrade /\ setup_event # "None"), avail \in Outcomes(Upgrade) :
       \E okr \in Outcomes(okc /\ avail /\ Upgrade) : \E raw \in Readable(okc /\ avail /\ okr) :
        LET c == clear_prev_event(okc)
        IN EventDone("try_event", c,
                     IF c.err THEN NoRead(TRUE, c.setup_event)
                     ELSE IF avail /\ Upgrade THEN read_event(raw, okr, c.setup_event)
                     ELSE NoRead(FALSE, c.setup_event))

\* Custom::event_timeout:
\*   if self.wait_event_sync(Some(timeout))? { Ok(Some(self.read_event()?)) } else { Ok(None) }
EventTimeout ==
    /\ resp = "none"
    /\ \E avail \in Outcomes(Upgrade) : \E okr \in Outcomes(avail /\ Upgrade) :
       \E raw \in Readable(avail /\ okr) :
        EventDone("event_timeout", NoRead(FALSE, setup_event),
                  IF ~Upgrade THEN NoRead(TRUE, setup_event)
                  ELSE IF avail THEN read_event(raw, okr, setup_event)
                  ELSE NoRead(FALSE, setup_event))

\* CtrlSender::do_halt / CtrlReceiver::do_halt: ep0()?, the 1-byte I/O, and
\* setup_event = None if it succeeded; se: setup_event before, ok: the I/O succeeds.
do_halt(kind, se, ok) ==
    IF ~Upgrade
        THEN [err |-> TRUE, io |-> <<>>, setup_event |-> se]
    ELSE IF ~ok
        THEN [err |-> TRUE,
              io |-> Io(IF kind = "CtrlSender" THEN "read1" ELSE "write1", FALSE),
              setup_event |-> se]
    ELSE [err |-> FALSE,
          io |-> Io(IF kind = "CtrlSender" THEN "read1" ELSE "write1", TRUE),
          setup_event |-> "None"]

\* a send / recv that marks the transfer answered although its I/O failed
answerMarkingFailed(kind, se, ok) ==
    IF ~Upgrade
        THEN [err |-> TRUE, io |-> <<>>, setup_event |-> se]
        ELSE [err |-> ~ok,
              io |-> Io(IF kind = "CtrlSender" THEN "write" ELSE "read", ok),
              setup_event |-> "None"]

\* CtrlSender::send / CtrlReceiver::recv (recv_all calls recv): ep0()?, the data
\* I/O, and setup_event = None if it succeeded.
answer(kind, se, ok) ==
    IF ~Upgrade
        THEN [err |-> TRUE, io |-> <<>>, setup_event |-> se]
    ELSE IF ~ok
        THEN [err |-> TRUE,
              io |-> Io(IF kind = "CtrlSender" THEN "write" ELSE "read", FALSE),
              setup_event |-> se]
    ELSE [err |-> FALSE,
          io |-> Io(IF kind = "CtrlSender" THEN "write" ELSE "read", TRUE),
          setup_event |-> "None"]

\* a Drop that halts whether or not the transfer was answered
dropAlways(kind, se, ok) == do_halt(kind, se, ok)

\* Drop for CtrlSender / CtrlReceiver:
\*   if self.custom.setup_event.is_some() { let _ = self.do_halt(); }
drop(kind, se, ok) ==
    IF se # "None"
        THEN do_halt(kind, se, ok)
        ELSE [err |-> FALSE, io |-> <<>>, setup_event |-> se]

\* A method that consumes the response object has run with result a; the
\* object is dropped when the method returns (d: the result of Drop).
RespDone(m, a, d, fate) ==
    /\ setup_event' = d.setup_event
    /\ resp' = "none"
    /\ last' = [call |-> m, pre |-> setup_event, open |-> Upgrade, resp |-> resp,
                io |-> a.io \o d.io, ret |-> IF a.err THEN Error ELSE "Ok",
                event |-> "none", life |-> ep0]
    /\ Seen("Custom", IF a.err THEN Error ELSE "Ok")
    /\ since' = since \o a.io \o d.io
    /\ pending' = [pending EXCEPT !.fate = fate]
    /\ UNCHANGED <<ep0, prev, aioVars, laterVars>>

\* CtrlSender::send(self, data)
Send ==
    /\ resp = "CtrlSender"
    /\ \E ok \in Outcomes(Upgrade) : \E okd \in Outcomes(Upgrade /\ ~ok) :
        LET a == answer(resp, setup_event, ok)
        IN RespDone("send", a, drop(resp, a.setup_event, okd),
                    IF a.err THEN "failed" ELSE "answered")

\* CtrlReceiver::recv(self, data), CtrlReceiver::recv_all(self)
Recv ==
    /\ resp = "CtrlReceiver"
    /\ \E ok \in Outcomes(Upgrade) : \E okd \in Outcomes(Upgrade /\ ~ok) :
        LET a == answer(resp, setup_event, ok)
        IN RespDone("recv", a, drop(resp, a.setup_event, okd),
                    IF a.err THEN "failed" ELSE "answered")

\* CtrlSender::halt(mut self), CtrlReceiver::halt(mut self)
Halt ==
    /\ resp # "none"
    /\ \E ok \in Outcomes(Upgrade) : \E okd \in Outcomes(Upgrade /\ ~ok) :
        LET a == do_halt(resp, setup_event, ok)
        IN RespDone("halt", a, drop(resp, a.setup_event, okd),
                    IF a.err THEN "failed" ELSE "halted")

\* The response object (or the Event that holds it) is dropped unused.
Drop ==
    /\ resp # "none"
    /\ \E okd \in Outcomes(Upgrade /\ setup_event # "None") :
        RespDone("drop", [err |-> FALSE, io |-> <<>>, setup_event |-> setup_event],
                 drop(resp, setup_event, okd), "dropped")

\* The response object is forgotten (mem::forget): no destructor runs and
\* setup_event keeps the direction.
Forget ==
    /\ resp # "none"
    /\ RespDone("forget", [err |-> FALSE, io |-> <<>>, setup_event |-> setup_event],
                [err |-> FALSE, io |-> <<>>, setup_event |-> setup_event], "leaked")

\* Custom::fd (real_address likewise): let ep0 = self.ep0()?; Ok(ep0.as_raw_fd())
Fd ==
    /\ resp = "none"
    /\ last' = [NoCall EXCEPT !.call = "fd", !.pre = setup_event, !.open = Upgrade,
                               !.ret = FileResult(ep0), !.life = ep0]
    /\ Seen("Custom", FileResult(ep0))
    /\ UNCHANGED <<ep0, setup_event, resp, pending, since, prev, aioVars, laterVars>>

\* EndpointSender::control / EndpointReceiver::control and EndpointControl::fd
\* (unclaimed_fifo, discard_fifo, clear_halt, real_address, descriptor likewise):
\*   let io = self.0.get()?;  let file = self.io.file()?;  Ok(file.as_raw_fd())
EndpointFd ==
    /\ last' = [NoCall EXCEPT !.call = "endpoint_fd", !.pre = setup_event, !.open = Upgrade,
                               !.ret = FileResult(ep0), !.life = ep0]
    /\ Seen("Endpoint", FileResult(ep0))
    /\ UNCHANGED <<ep0, setup_event, resp, pending, since, prev, aioVars, laterVars>>

\* CustomFunction::init (called by the registration): the endpoint files and the
\* control file are opened and sent to the handles.
Register ==
    /\ ep0 = "unset"
    /\ ep0' = "open"
    /\ UNCHANGED <<setup_event, resp, last, pending, since, prev, seen, aioVars, laterVars>>

\* The function is dropped without having been registered: ep0_tx and the
\* senders of the endpoints are dropped, nothing was sent.
DropFunction ==
    /\ ep0 = "unset"
    /\ ep0' = "dropped"
    /\ UNCHANGED <<setup_event, resp, last, pending, since, prev, seen, aioVars, laterVars>>

\* CustomFunction::close: the registration drops the files (USB gadget removed).
Close ==
    /\ ep0 = "open"
    /\ ep0' = "closed"
    /\ UNCHANGED <<setup_event, resp, last, pending, since, prev, seen, aioVars, laterVars>>

(***************************************************************************)
(* Part III: CustomBuilder.  Of an interface only its association matters  *)
(* here; an Association is compared by the address of its Arc, so the keys *)
(* are identities.                                                         *)
(***************************************************************************)

\* number of interfaces added to the builder
MaxInterfaces == 4

\* the Association objects of the caller
Associations == {"A", "B"}

\* no descriptors built
NoDescs == [built |-> FALSE, err |-> FALSE, assocs |-> <<>>]

InitDescs ==
    /\ interfaces = <<>>
    /\ descs = NoDescs

\* CustomBuilder::ffs_descs, the loop over the interfaces from interface number n
\* on (intfs: the interfaces not yet visited, assocs: the HashMap assocs):
\*   let iad = match assocs.entry(assoc.clone()) { Occupied(ocu) => ocu.into_mut(),
\*       Vacant(vac) => vac.insert(InterfaceAssocDesc { first_interface: interface_number,
\*                                                      interface_count: 0, .. }) };
\*   if iad.first_interface + interface_number != interface_number { return Err(..adjacent) }
\*   iad.interface_count += 1;
RECURSIVE ffs_descs(_, _, _)
ffs_descs(intfs, n, assocs) ==
    IF intfs = <<>> THEN [built |-> TRUE, err |-> FALSE, assocs |-> assocs]
    ELSE IF Head(intfs) = "None" THEN ffs_descs(Tail(intfs), n + 1, assocs)
    ELSE LET assoc == Head(intfs)
             iad == IF assoc \in DOMAIN assocs
                       THEN assocs[assoc]
                       ELSE [first_interface |-> n, interface_count |-> 0]
         IN IF iad.first_interface + n # n
               THEN [built |-> TRUE, err |-> TRUE, assocs |-> <<>>]
               ELSE ffs_descs(Tail(intfs), n + 1,
                              [a \in DOMAIN assocs \cup {assoc} |->
                                  IF a = assoc
                                      THEN [iad EXCEPT !.interface_count = @ + 1]
                                      ELSE assocs[a]])

\* CustomBuilder::with_interface: self.interfaces.push(interface)
WithInterface ==
    /\ Len(interfaces) < MaxInterfaces
    /\ \E association \in {"None"} \cup Associations :
          interfaces' = Append(interfaces, association)
    /\ descs' = NoDescs
    /\ UNCHANGED <<aioVars, ctrlVars, ffsVars, regVars, gadgetVars, moreVars>>

\* CustomBuilder::ffs_descriptors_and_strings: let (descs, strs) = self.ffs_descs()?;
FfsDescriptors ==
    /\ descs' = ffs_descs(interfaces, 0, <<>>)
    /\ UNCHANGED <<interfaces, aioVars, ctrlVars, ffsVars, regVars, gadgetVars, moreVars>>

(***************************************************************************)
(* Part IV: the FunctionFS blobs (ffs.rs)                                  *)
(*                                                                         *)
(* A byte is a number in 0 .. 255, a blob a sequence of bytes, a String    *)
(* the sequence of its UTF-8 bytes.                                        *)
(***************************************************************************)

\* longest string, and most strings per language, of a string table
MaxStrLen == 2
MaxStrings == 2

\* the bytes strings are made of: the NUL character and the letter A
Chars == {0, 65}

\* impl From<Language> for u16
Languages == {"EnglishUnitedStates", "Afrikaans"}
LangId(lang) == IF lang = "EnglishUnitedStates" THEN 1033 ELSE 1078

\* Strings::MAGIC
STRINGS_MAGIC == 2

NoInput == [fn |-> "none"]
NoOutput == [fn |-> "none"]

\* WriteBytesExt::write_u8 / write_u16::<LE> / write_u32::<LE>, u32::to_le_bytes:
\* the n bytes of v, the least significant one first
RECURSIVE le(_, _)
le(v, n) == IF n = 0 THEN <<>> ELSE <<v % 256>> \o le(v \div 256, n - 1)

\* ReadBytesExt::read_u16::<LE>, and how the consumer of a blob reads a u32
RECURSIVE from_le(_)
from_le(b) == IF b = <<>> THEN 0 ELSE Head(b) + 256 * from_le(Tail(b))

\* data[at .. at + len].copy_from_slice(bytes), `at` counted from 0
copy_from_slice(data, at, bytes) ==
    [i \in 1 .. Len(data) |->
        IF i > at /\ i <= at + Len(bytes) THEN bytes[i - at] ELSE data[i]]

\* data.extend(..) for each element of a sequence of byte sequences
RECURSIVE Concat(_)
Concat(ss) ==
    IF ss = <<>> THEN <<>>
    ELSE IF Len(ss) = 1 THEN ss[1]
    ELSE Concat(SubSeq(ss, 1, Len(ss) \div 2)) \o Concat(SubSeq(ss, Len(ss) \div 2 + 1, Len(ss)))

Ok(data) == [ok |-> TRUE, err |-> "none", data |-> data]
Err(e) == [ok |-> FALSE, err |-> e, data |-> <<>>]

\* Strings of at most MaxStrLen bytes, lists of at most MaxStrings strings, and
\* the tables HashMap<Language, Vec<String>> made of them.
Strs == UNION {[1 .. n -> Chars] : n \in 0 .. MaxStrLen}
StrLists == UNION {[1 .. n -> Strs] : n \in 0 .. MaxStrings}
Tables == UNION {[L -> StrLists] : L \in SUBSET Languages}

\* Strings::to_bytes, for (lang, strings) in &self.0:
\*   data.write_u16::<LE>((*lang).into())?;
\*   for str in strings { data.write_all(str.as_bytes())?; data.write_u8(0)?; }
StringsOfLang(lang, strings) ==
    le(LangId(lang), 2) \o Concat([i \in 1 .. Len(strings) |-> strings[i] \o <<0>>])

\* Strings::to_bytes of the table, whose HashMap yields its languages in `order`:
\*   let str_count = self.0.values().next().map(|v| v.len()).unwrap_or_default();
\*   if !self.0.values().all(|v| v.len() == str_count) { return Err(StringsDifferAcrossLanguages) }
\*   MAGIC, 0, str_count, self.0.len(), the languages; data[4..8] = data.len()
\* (the try_into() of the counts and of the length to u32 cannot fail for the
\* tables of Tables)
StringsToBytes(table, order) ==
    LET str_count == IF order = <<>> THEN 0 ELSE Len(table[order[1]])
        data == le(STRINGS_MAGIC, 4) \o le(0, 4) \o le(str_count, 4)
                \o le(Cardinality(DOMAIN table), 4)
                \o Concat([i \in 1 .. Len(order) |-> StringsOfLang(order[i], table[order[i]])])
    IN IF \E lang \in DOMAIN table : Len(table[lang]) # str_count
          THEN Err("StringsDifferAcrossLanguages")
          ELSE Ok(copy_from_slice(data, 4, le(Len(data), 4)))

\* the orders in which a HashMap with the keys S may be iterated
Orders(S) == {q \in InjSeqs(S) : Len(q) = Cardinality(S)}

\* most descriptors (full, high and super speed together) and most OS
\* descriptors of a descriptor set
MaxDescs == 2
MaxOsDescs == 1

\* Descs::MAGIC_V2
DESCS_MAGIC_V2 == 3

\* InterfaceDesc::TYPE, EndpointDesc::TYPE, SsEndpointComp::TYPE, InterfaceAssocDesc::TYPE
INTERFACE_TYPE == 4
ENDPOINT_TYPE == 5
SS_ENDPOINT_COMP_TYPE == 48
INTERFACE_ASSOC_TYPE == 11

\* EndpointDesc::SIZE, EndpointDesc::AUDIO_SIZE
ENDPOINT_SIZE == 7
ENDPOINT_AUDIO_SIZE == 9

\* bitflags Flags: the bits of a set of flags
FlagBit(f) ==
    CASE f = "HAS_FS_DESC" -> 1
      [] f = "HAS_HS_DESC" -> 2
      [] f = "HAS_SS_DESC" -> 4
      [] f = "HAS_MS_OS_DESC" -> 8
      [] f = "VIRTUAL_ADDR" -> 16
      [] f = "EVENTFD" -> 32
      [] f = "ALL_CTRL_RECIP" -> 64
      [] f = "CONFIG0_SETUP" -> 128

RECURSIVE bits(_)
bits(flags) ==
    IF flags = {} THEN 0
    ELSE LET f == CHOOSE f \in flags : TRUE IN FlagBit(f) + bits(flags \ {f})

\* InterfaceDesc::write
InterfaceDescWrite(d) ==
    <<INTERFACE_TYPE, d.interface_number, d.alternate_setting, d.num_endpoints,
      d.interface_class, d.interface_sub_class, d.interface_protocol, d.name_idx>>

\* an EndpointDesc::write that writes the maximum packet size high byte first
EndpointDescWriteBigEndian(d) ==
    <<ENDPOINT_TYPE, d.endpoint_address, d.attributes,
      d.max_packet_size \div 256, d.max_packet_size % 256, d.interval>>
    \o (IF d.audio = <<>> THEN <<>> ELSE <<d.audio[1].refresh, d.audio[1].synch_address>>)

\* EndpointDesc::write
EndpointDescWrite(d) ==
    <<ENDPOINT_TYPE, d.endpoint_address, d.attributes>> \o le(d.max_packet_size, 2)
    \o <<d.interval>>
    \o (IF d.audio = <<>> THEN <<>> ELSE <<d.audio[1].refresh, d.audio[1].synch_address>>)

\* SsEndpointComp::write
SsEndpointCompWrite(d) ==
    <<SS_ENDPOINT_COMP_TYPE, d.max_burst, d.attributes>> \o le(d.bytes_per_interval, 2)

\* InterfaceAssocDesc::write
InterfaceAssocDescWrite(d) ==
    <<INTERFACE_ASSOC_TYPE, d.first_interface, d.interface_count, d.function_class,
      d.function_sub_class, d.function_protocol, d.name_idx>>

\* CustomDesc::write
CustomDescWrite(d) == <<d.descriptor_type>> \o d.data

\* Desc::to_bytes, match self { .. => d.write(&mut data)? }
DescWrite(d) ==
    CASE d.kind = "Interface" -> InterfaceDescWrite(d)
      [] d.kind = "Endpoint" -> EndpointDescWrite(d)
      [] d.kind = "SsEndpointComp" -> SsEndpointCompWrite(d)
      [] d.kind = "InterfaceAssoc" -> InterfaceAssocDescWrite(d)
      [] d.kind = "Custom" -> CustomDescWrite(d)

\* a Desc::to_bytes that stores the low byte of the length of a long record
DescToBytesTruncating(d) ==
    LET data == <<0>> \o DescWrite(d)
    IN Ok(copy_from_slice(data, 0, <<Len(data) % 256>>))

\* Desc::to_bytes:
\*   data.write_u8(0)?; ..write(&mut data)?; data[0] = data.len().try_into()?; Ok(data)
DescToBytes(d) ==
    LET data == <<0>> \o DescWrite(d)
    IN IF Len(data) > 255 THEN Err("Overflow")
       ELSE Ok(copy_from_slice(data, 0, <<Len(data)>>))

\* OsExtCompat::write
OsExtCompatWrite(c) ==
    <<c.first_interface_number, 1>> \o c.compatible_id \o c.sub_compatible_id
    \o [i \in 1 .. 6 |-> 0]

\* OsExtProp::to_bytes (the name and the data are shorter than 2^16 and 2^32)
OsExtPropToBytes(p) ==
    LET data == le(0, 4) \o le(p.data_type, 4) \o le(Len(p.name), 2) \o p.name
                \o le(Len(p.data), 4) \o p.data
    IN copy_from_slice(data, 0, le(Len(data), 4))

\* OsDescExt::write, bcd being the bcdVersion chosen from linux_version();
\* fewer than 256 compatible ids, fewer than 2^16 properties
OsDescExtWrite(ext, bcd) ==
    IF ext.kind = "ExtCompat"
        THEN le(bcd, 2) \o le(4, 2) \o <<Len(ext.list), 0>>
             \o Concat([i \in 1 .. Len(ext.list) |-> OsExtCompatWrite(ext.list[i])])
        ELSE le(bcd, 2) \o le(5, 2) \o le(Len(ext.list), 2)
             \o Concat([i \in 1 .. Len(ext.list) |-> OsExtPropToBytes(ext.list[i])])

\* OsDesc::to_bytes:
\*   write_u8(self.interface), write_u32(0), self.ext.write(&mut data)?;
\*   data[1..5] = data.len()
OsDescToBytes(d, bcd) ==
    LET data == <<d.interface>> \o le(0, 4) \o OsDescExtWrite(d.ext, bcd)
    IN Ok(copy_from_slice(data, 1, le(Len(data), 4)))

\* the results of a sequence of to_bytes calls, `?` applied to each
AllOkBytes(rs) == \A i \in 1 .. Len(rs) : rs[i].ok
FirstErr(rs) == rs[CHOOSE i \in 1 .. Len(rs) : ~rs[i].ok /\ \A j \in 1 .. i - 1 : rs[j].ok]

\* Descs::to_bytes
DescsToBytes(d, bcd) ==
    LET flags == (d.flags \cup {"HAS_FS_DESC", "HAS_HS_DESC", "HAS_SS_DESC", "HAS_MS_OS_DESC"}
                    \cup (IF d.eventfd = <<>> THEN {} ELSE {"EVENTFD"}))
                 \ (IF d.eventfd = <<>> THEN {"EVENTFD"} ELSE {})
        head == le(DESCS_MAGIC_V2, 4) \o le(0, 4) \o le(bits(flags), 4)
                \o (IF d.eventfd = <<>> THEN <<>> ELSE le(d.eventfd[1], 4))
                \o le(Len(d.fs_descrs), 4) \o le(Len(d.hs_descrs), 4)
                \o le(Len(d.ss_descrs), 4) \o le(Len(d.os_descrs), 4)
        descrs == d.fs_descrs \o d.hs_descrs \o d.ss_descrs
        rs == [i \in 1 .. Len(descrs) |-> DescToBytes(descrs[i])]
              \o [i \in 1 .. Len(d.os_descrs) |-> OsDescToBytes(d.os_descrs[i], bcd)]
        data == head \o Concat([i \in 1 .. Len(rs) |-> rs[i].data])
    IN IF ~AllOkBytes(rs) THEN FirstErr(rs)
       ELSE Ok(copy_from_slice(data, 4, le(Len(data), 4)))

\* lengths of the data of a custom descriptor: the record has two bytes more
CustomLens == {0, 1, 253, 254}

\* the endpoint descriptors, with and without the audio extension (an Option
\* is the sequence of what it holds: <<>> is None, <<x>> is Some(x))
EndpointDescs ==
    {[kind |-> "Endpoint", endpoint_address |-> a, attributes |-> at,
      max_packet_size |-> m, interval |-> iv, audio |-> au] :
        a \in {0, 1, 129, 255}, at \in {0, 2, 255}, m \in {0, 64, 512, 65535},
        iv \in {0, 1, 255},
        au \in {<<>>} \cup {<<[refresh |-> r, synch_address |-> sa]>> :
                                r \in {0, 3}, sa \in {130, 255}}}

\* the descriptors of a descriptor set
DescValues ==
    {[kind |-> "Interface", interface_number |-> 0, alternate_setting |-> 0,
      num_endpoints |-> 2, interface_class |-> 255, interface_sub_class |-> 1,
      interface_protocol |-> 2, name_idx |-> 1]}
    \cup {d \in EndpointDescs : /\ d.endpoint_address = 129 /\ d.attributes = 2
                                 /\ d.max_packet_size = 512 /\ d.interval = 1
                                 /\ d.audio \in {<<>>, <<[refresh |-> 3, synch_address |-> 130]>>}}
    \cup {[kind |-> "SsEndpointComp", max_burst |-> 0, attributes |-> 0,
           bytes_per_interval |-> 1024]}
    \cup {[kind |-> "InterfaceAssoc", first_interface |-> 0, interface_count |-> 1,
           function_class |-> 255, function_sub_class |-> 1, function_protocol |-> 2,
           name_idx |-> 0]}
    \cup {[kind |-> "Custom", descriptor_type |-> 36, data |-> [i \in 1 .. n |-> 7]] :
            n \in CustomLens}

\* the OS descriptors of a descriptor set
OsDescValues ==
    {[interface |-> 0, ext |-> [kind |-> k, list |-> l]] :
        k \in {"ExtCompat"}, l \in {<<>>, <<[first_interface_number |-> 0,
                                              compatible_id |-> <<87, 73, 78, 85, 83, 66, 0, 0>>,
                                              sub_compatible_id |-> [i \in 1 .. 8 |-> 0]]>>}}
    \cup {[interface |-> 0, ext |-> [kind |-> k, list |-> l]] :
        k \in {"ExtProp"}, l \in {<<>>, <<[data_type |-> 1, name |-> <<65, 0>>,
                                            data |-> <<66>>]>>}}

DescLists == UNION {[1 .. n -> DescValues] : n \in 0 .. MaxDescs}
OsDescLists == UNION {[1 .. n -> OsDescValues] : n \in 0 .. MaxOsDescs}

\* the descriptor sets: at most MaxDescs descriptors spread over the three speeds
DescSets ==
    UNION {UNION {{[flags |-> f, eventfd |-> e,
                    fs_descrs |-> SubSeq(all, 1, i), hs_descrs |-> SubSeq(all, i + 1, j),
                    ss_descrs |-> SubSeq(all, j + 1, Len(all)), os_descrs |-> os] :
                      f \in {{}, {"EVENTFD", "ALL_CTRL_RECIP"}}, e \in {<<>>, <<5>>},
                      j \in i .. Len(all), os \in OsDescLists} :
                  i \in 0 .. Len(all)} :
           all \in DescLists}

\* (&[u8])::read_u8 and read_u16::<LE> at offset `at` (counted from 0) of data
\* fail with UnexpectedEof when the data ends before the value does.
Eof(data, at, n) == at + n > Len(data)

\* EndpointDesc::parse
EndpointParse(data) ==
    IF Eof(data, 0, 1) THEN Err("UnexpectedEof")
    ELSE IF data[1] # ENDPOINT_SIZE /\ data[1] # ENDPOINT_AUDIO_SIZE
        THEN Err("endpoint descriptor size mismatch")
    ELSE IF Eof(data, 1, 1) THEN Err("UnexpectedEof")
    ELSE IF data[2] # ENDPOINT_TYPE THEN Err("endpoint descriptor type mismatch")
    ELSE IF Eof(data, 2, 5) THEN Err("UnexpectedEof")
    ELSE IF data[1] = ENDPOINT_AUDIO_SIZE /\ Eof(data, 7, 2) THEN Err("UnexpectedEof")
    ELSE Ok([kind |-> "Endpoint", endpoint_address |-> data[3], attributes |-> data[4],
             max_packet_size |-> from_le(SubSeq(data, 5, 6)), interval |-> data[7],
             audio |-> IF data[1] = ENDPOINT_AUDIO_SIZE
                          THEN <<[refresh |-> data[8], synch_address |-> data[9]]>>
                          ELSE <<>>])

\* Records that are not the encoding of an endpoint descriptor: the record with
\* another length byte, with another type byte, or cut short.
Damaged(data) ==
    {copy_from_slice(data, 0, <<size>>) : size \in {0, 6, 7, 8, 9, 10, 255} \ {data[1]}}
    \cup {copy_from_slice(data, 1, <<type>>) : type \in {0, 4, 6, 48}}
    \cup {SubSeq(data, 1, n) : n \in 0 .. Len(data) - 1}

\* ffs::Event::SIZE
EVENT_SIZE == 12

\* event_type of the raw events (u8): the seven types of ffs::event, and others
EventTags == 0 .. 7 \cup {255}

\* the 12 bytes of a raw event: 8 bytes of data (for SETUP the control request,
\* whose first byte is bmRequestType), event_type, 3 bytes of padding
EventBytes(tag, request_type) == <<request_type, 0, 0, 0, 0, 0, 0, 0, tag, 0, 0, 0>>

\* ffs::Event::parse:
\*   buf.read_exact(&mut data)?; let event_type = buf.read_u8()?; buf.read_exact(&mut pad)?;
EventParse(buf) ==
    IF Len(buf) < EVENT_SIZE
        THEN [ok |-> FALSE, data |-> <<>>, event_type |-> 0]
        ELSE [ok |-> TRUE, data |-> SubSeq(buf, 1, 8), event_type |-> buf[9]]

\* ffs::CtrlReq::parse
CtrlReqParse(buf) ==
    [request_type |-> buf[1], request |-> buf[2], value |-> from_le(SubSeq(buf, 3, 4)),
     index |-> from_le(SubSeq(buf, 5, 6)), length |-> from_le(SubSeq(buf, 7, 8))]

\* Custom::read_event on an open control file whose read yields the first n
\* bytes of the raw event `bytes`; se: setup_event before the call.
\*   let n = ep0.read(&mut buf)?;
\*   if n != ffs::Event::SIZE { return Err(InvalidData) }
\*   let raw_event = ffs::Event::parse(&buf)?;  Ok(Event::from_ffs(raw_event, self))
ReadEventBytes(bytes, n, se) ==
    LET buf == [i \in 1 .. EVENT_SIZE |-> IF i <= n THEN bytes[i] ELSE 0]
        raw == EventParse(buf)
        event == from_ffs([event_type |-> raw.event_type,
                           request_type |-> CtrlReqParse(raw.data).request_type])
    IN IF n # EVENT_SIZE
          THEN [ret |-> "InvalidData", event |-> "none", tag |-> <<>>,
                setup_event |-> se, resp |-> "none"]
       ELSE IF ~raw.ok
          THEN [ret |-> "UnexpectedEof", event |-> "none", tag |-> <<>>,
                setup_event |-> se, resp |-> "none"]
       ELSE [ret |-> "Ok", event |-> event,
             tag |-> IF event = "Unknown" THEN <<raw.event_type>> ELSE <<>>,
             setup_event |-> SetupOf(event, se), resp |-> RespOf(event)]

\* the reads of an event: the raw event the kernel holds, how many bytes of it
\* the read yields, and custom.setup_event before the read
EventReads ==
    [fn : {"read_event"}, event_type : EventTags, request_type : RequestTypes,
     n : {0, 8, EVENT_SIZE - 1, EVENT_SIZE},
     se : {"None", "DeviceToHost", "HostToDevice"}]

\* the values the functions of the type that `api` names are applied to
FfsInputs ==
    CASE api = "Strings" -> {[fn |-> "Strings::to_bytes", table |-> t] : t \in Tables}
      [] api = "Descs" -> {[fn |-> "Descs::to_bytes", descs |-> d] : d \in DescSets}
      [] api = "EndpointDesc" -> {[fn |-> "Desc::to_bytes", desc |-> d] : d \in EndpointDescs}
      [] api = "Event" -> EventReads
      [] OTHER -> {NoInput}

InitFfs ==
    /\ input \in FfsInputs
    /\ output = NoOutput

\* strs.to_bytes()
StringsToBytesCall ==
    /\ input.fn = "Strings::to_bytes"
    /\ output = NoOutput
    /\ \E order \in Orders(DOMAIN input.table) :
          output' = [fn |-> input.fn, order |-> order,
                     res |-> StringsToBytes(input.table, order)]
    /\ UNCHANGED <<input, aioVars, ctrlVars, descVars, regVars, gadgetVars, moreVars>>

\* Desc::Endpoint(d).to_bytes()
EndpointToBytesCall ==
    /\ input.fn = "Desc::to_bytes"
    /\ output = NoOutput
    /\ output' = [fn |-> input.fn, res |-> DescToBytes(input.desc)]
    /\ UNCHANGED <<input, aioVars, ctrlVars, descVars, regVars, gadgetVars, moreVars>>

\* EndpointDesc::parse(data), data being the encoded record or a damaged one
EndpointParseCall ==
    /\ output.fn = "Desc::to_bytes"
    /\ output.res.ok
    /\ \E data \in {output.res.data} \cup Damaged(output.res.data) :
          output' = [fn |-> "EndpointDesc::parse", data |-> data,
                     encoded |-> output.res.data, res |-> EndpointParse(data)]
    /\ UNCHANGED <<input, aioVars, ctrlVars, descVars, regVars, gadgetVars, moreVars>>

\* custom.read_event()
ReadEventCall ==
    /\ input.fn = "read_event"
    /\ output = NoOutput
    /\ output' = [fn |-> input.fn,
                  res |-> ReadEventBytes(EventBytes(input.event_type, input.request_type),
                                         input.n, input.se)]
    /\ UNCHANGED <<input, aioVars, ctrlVars, descVars, regVars, gadgetVars, moreVars>>

\* descs.to_bytes(); linux_version() decides the bcdVersion of the OS descriptors:
\*   if linux_version().unwrap_or_default() >= (6, 4) { 0x0100 } else { 0x0001 }
DescsToBytesCall ==
    /\ input.fn = "Descs::to_bytes"
    /\ output = NoOutput
    /\ \E bcd \in {256, 1} :
          output' = [fn |-> input.fn, bcd |-> bcd, res |-> DescsToBytes(input.descs, bcd)]
    /\ UNCHANGED <<input, aioVars, ctrlVars, descVars, regVars, gadgetVars, moreVars>>

(***************************************************************************)
(* Part V: CustomFunction::init, the registration of a custom function.    *)
(*                                                                         *)
(* Of an interface its association, the number of its endpoints, the       *)
(* lengths of the data of its custom descriptors and its name matter.      *)
(***************************************************************************)

\* most interfaces of a configuration that is registered
MaxRegInterfaces == 2

NoBuilder == [ffs_no_init |-> FALSE, interfaces |-> <<>>]
NoReg == [pc |-> "none", written |-> 0, short |-> FALSE, endpoint_num |-> 0,
          sent |-> {}, ep0_sent |-> FALSE, ret |-> "none", ep_files |-> <<>>]

\* the names of an interface: HashMap<Language, String>
Names ==
    {<<>>, [lang \in {"EnglishUnitedStates"} |-> <<65>>],
     [lang \in Languages |-> IF lang = "Afrikaans" THEN <<>> ELSE <<65>>]}

\* Endpoint::bulk(EndpointDirection::device_to_host()) and
\* Endpoint::bulk(EndpointDirection::host_to_device().with_queue_len(4))
EndpointIn == [direction |-> "DeviceToHost", queue_len |-> 16]
EndpointOut == [direction |-> "HostToDevice", queue_len |-> 4]

\* most endpoints of one interface of a configuration that is registered
MaxEndpoints == 127

\* Interface::endpoints: no endpoint, one, two, and as many as one function
\* can number
EndpointLists ==
    {<<>>, <<EndpointIn>>, <<EndpointOut, EndpointIn>>,
     [i \in 1 .. MaxEndpoints |-> IF i % 2 = 0 THEN EndpointOut ELSE EndpointIn]}

\* the interfaces of a configuration
InterfaceConfigs ==
    [association : {"None", "A"}, endpoints : EndpointLists,
     custom_descs : {<<>>, <<254>>}, name : Names]

Builders ==
    [ffs_no_init : BOOLEAN,
     interfaces : UNION {[1 .. n -> InterfaceConfigs] : n \in 0 .. MaxRegInterfaces}]

InitReg ==
    /\ builder \in (IF api = "CustomFunction" THEN Builders ELSE {NoBuilder})
    /\ reg = NoReg

\* add_strings in CustomBuilder::ffs_descs: every language of the table and of
\* strs gets one more string, a language new to the table str_cnt empty
\* strings before it.
add_strings(strings, strs) ==
    LET str_cnt == IF DOMAIN strings = {} THEN 0
                   ELSE Len(strings[CHOOSE lang \in DOMAIN strings : TRUE])
    IN [lang \in DOMAIN strings \cup DOMAIN strs |->
           (IF lang \in DOMAIN strings THEN strings[lang] ELSE [i \in 1 .. str_cnt |-> <<>>])
           \o <<IF lang \in DOMAIN strs THEN strs[lang] ELSE <<>>>>]

\* the index add_strings returns: u8::try_from(str_cnt + 1)
name_idx(strings) ==
    IF DOMAIN strings = {} THEN 1 ELSE Len(strings[CHOOSE lang \in DOMAIN strings : TRUE]) + 1

\* an endpoint descriptor with the direction bit set whatever the direction
ep_descAllIn(endpoint_num, ep, speed) ==
    [kind |-> "Endpoint", endpoint_address |-> endpoint_num + DIR_IN, attributes |-> 2,
     max_packet_size |-> IF speed = "fs" THEN 0 ELSE 512, interval |-> 0, audio |-> <<>>]

\* ep_desc in ffs_descs, with the max_packet_size of the speed:
\*   endpoint_address: match ep.direction.direction {
\*       DeviceToHost => endpoint_num | ffs::DIR_IN, HostToDevice => endpoint_num | ffs::DIR_OUT }
\* (endpoint_num < DIR_IN here, so that `|` adds the bit)
ep_desc(endpoint_num, ep, speed) ==
    [kind |-> "Endpoint",
     endpoint_address |-> endpoint_num + (IF ep.direction = "DeviceToHost"
                                             THEN DIR_IN ELSE DIR_OUT),
     attributes |-> 2,
     max_packet_size |-> IF speed = "fs" THEN 0 ELSE 512, interval |-> 0, audio |-> <<>>]

\* ss_comp_desc in ffs_descs
ss_comp_desc ==
    [kind |-> "SsEndpointComp", max_burst |-> 0, attributes |-> 0, bytes_per_interval |-> 0]

\* the descriptors ffs_descs pushes for the endpoints eps of an interface, the
\* first of which gets the number `first`: one per endpoint, for SuperSpeed
\* each followed by its companion
EndpointsOf(first, eps, speed) ==
    IF speed = "ss"
        THEN [j \in 1 .. 2 * Len(eps) |->
                IF j % 2 = 1 THEN ep_desc(first + (j - 1) \div 2, eps[(j + 1) \div 2], speed)
                             ELSE ss_comp_desc]
        ELSE [i \in 1 .. Len(eps) |-> ep_desc(first + i - 1, eps[i], speed)]

\* Association::name of the association with the label a
AssociationName(a) == [lang \in {"EnglishUnitedStates"} |-> <<66>>]

\* the labels of the associations of a sequence of interfaces
AssociationsOf(intfs) == [i \in 1 .. Len(intfs) |-> intfs[i].association]

\* CustomBuilder::ffs_descs, the loop over the interfaces from interface number n
\* on; all: all interfaces; acc: endpoint_num, strings and the descriptor lists.
\* The numbers of interfaces, of endpoints of one interface and of strings stay
\* below 256.
RECURSIVE ffs_descs_from(_, _, _)
ffs_descs_from(all, n, acc) ==
    IF n = Len(all)
        THEN LET assocs == ffs_descs(AssociationsOf(all), 0, <<>>).assocs
                 order == CHOOSE q \in Orders(DOMAIN assocs) : TRUE
                 iads == [i \in 1 .. Len(order) |->
                            LET iad == assocs[order[i]]
                            IN [kind |-> "InterfaceAssoc", first_interface |-> iad.first_interface,
                                interface_count |-> iad.interface_count, function_class |-> 255,
                                function_sub_class |-> 0, function_protocol |-> 0,
                                name_idx |-> acc.assoc_idx[order[i]]]]
             IN [err |-> "none", strs |-> acc.strings,
                 descs |-> [flags |-> {}, eventfd |-> <<>>, fs_descrs |-> acc.fs \o iads,
                            hs_descrs |-> acc.hs \o iads, ss_descrs |-> acc.ss \o iads,
                            os_descrs |-> <<>>]]
    ELSE LET intf == all[n + 1]
             strings == add_strings(acc.strings, intf.name)
             if_desc == [kind |-> "Interface", interface_number |-> n, alternate_setting |-> 0,
                         num_endpoints |-> Len(intf.endpoints), interface_class |-> 255,
                         interface_sub_class |-> 0, interface_protocol |-> 0,
                         name_idx |-> name_idx(acc.strings)]
             customs == [i \in 1 .. Len(intf.custom_descs) |->
                            [kind |-> "Custom", descriptor_type |-> 36,
                             data |-> [j \in 1 .. intf.custom_descs[i] |-> 7]]]
             upto == acc.endpoint_num + Len(intf.endpoints)
             newassoc == /\ intf.association # "None"
                         /\ \A i \in 1 .. n : all[i].association # intf.association
         IN IF upto >= DIR_IN THEN [err |-> "too many endpoints"]
            ELSE IF ffs_descs(AssociationsOf(SubSeq(all, 1, n + 1)), 0, <<>>).err
                THEN [err |-> "associated interfaces must be adjacent"]
            ELSE ffs_descs_from(all, n + 1,
                    [endpoint_num |-> upto,
                     strings |-> IF newassoc
                                    THEN add_strings(strings, AssociationName(intf.association))
                                    ELSE strings,
                     assoc_idx |-> IF newassoc
                                      THEN [a \in DOMAIN acc.assoc_idx \cup {intf.association} |->
                                              IF a = intf.association THEN name_idx(strings)
                                                                      ELSE acc.assoc_idx[a]]
                                      ELSE acc.assoc_idx,
                     fs |-> acc.fs \o <<if_desc>> \o customs
                            \o EndpointsOf(acc.endpoint_num + 1, intf.endpoints, "fs"),
                     hs |-> acc.hs \o <<if_desc>> \o customs
                            \o EndpointsOf(acc.endpoint_num + 1, intf.endpoints, "hs"),
                     ss |-> acc.ss \o <<if_desc>> \o customs
                            \o EndpointsOf(acc.endpoint_num + 1, intf.endpoints, "ss")])

\* self.builder.ffs_descs()
BuilderFfsDescs ==
    ffs_descs_from(builder.interfaces, 0,
                   [endpoint_num |-> 0, strings |-> <<>>, assoc_idx |-> <<>>, fs |-> <<>>,
                    hs |-> <<>>, ss |-> <<>>])

\* the endpoints of the configuration in the order of the two loops
\*   for intf in &self.builder.interfaces { for ep in &intf.endpoints { .. } }
AllEndpoints ==
    Concat([i \in 1 .. Len(builder.interfaces) |-> builder.interfaces[i].endpoints])

\* number of endpoints of the configuration
NumEndpoints == Len(AllEndpoints)

\* init returns Err(err): its locals, the control file and the endpoint files
\* it opened among them, are dropped.
InitFails(err) == reg' = [reg EXCEPT !.pc = "failed", !.ret = err]

\* CustomFunction::register calls self.init():
\*   if !self.builder.ffs_no_init { let (descs, strs) = self.builder.ffs_descs()?; .. }
\*   self.ffs_dir_tx.send(ffs_dir).unwrap(); Ok(())
InitStart ==
    /\ api = "CustomFunction"
    /\ reg.pc = "none"
    /\ IF builder.ffs_no_init THEN reg' = [reg EXCEPT !.pc = "done", !.ret = "Ok"]
       ELSE IF BuilderFfsDescs.err # "none" THEN InitFails(BuilderFfsDescs.err)
       ELSE reg' = [reg EXCEPT !.pc = "open"]
    /\ UNCHANGED <<builder, aioVars, ctrlVars, descVars, ffsVars, gadgetVars, moreVars>>

\* let mut ep0 = File::options().read(true).write(true).open(&ep0_path)?;
InitOpen ==
    /\ reg.pc = "open"
    /\ \/ InitFails("OsError")
       \/ reg' = [reg EXCEPT !.pc = "descs"]
    /\ UNCHANGED <<builder, aioVars, ctrlVars, descVars, ffsVars, gadgetVars, moreVars>>

\* ep0.write(&data)? != data.len(): what the write of len bytes may return
WriteResults(len) ==
    {[ok |-> FALSE, n |-> 0]} \cup {[ok |-> TRUE, n |-> n] : n \in {0, len - 1, len} \cap Nat}

\* an init that goes on after a short write
InitWriteIgnoringShort(res, w, then) ==
    IF ~res.ok THEN InitFails(res.err)
    ELSE IF ~w.ok THEN InitFails("OsError")
    ELSE reg' = [reg EXCEPT !.pc = then, !.written = @ + w.n,
                            !.short = @ \/ w.n # Len(res.data)]

\* What init does with the result res of to_bytes() and the result w of the
\* write of its data; `then` is where init goes on after a complete write.
\*   let data = ..to_bytes()?;
\*   if ep0.write(&data)? != data.len() { return Err(UnexpectedEof, "short .. write") }
InitWrite(res, w, then) ==
    IF ~res.ok THEN InitFails(res.err)
    ELSE IF ~w.ok THEN InitFails("OsError")
    ELSE IF w.n # Len(res.data)
        THEN reg' = [reg EXCEPT !.pc = "failed", !.ret = "UnexpectedEof",
                                !.written = @ + w.n, !.short = TRUE]
    ELSE reg' = [reg EXCEPT !.pc = then, !.written = @ + w.n]

\* descs.to_bytes()? and the write of the descriptors
InitWriteDescs ==
    /\ reg.pc = "descs"
    /\ \E bcd \in {256, 1} :
          LET res == DescsToBytes(BuilderFfsDescs.descs, bcd)
          IN \E w \in WriteResults(Len(res.data)) : InitWrite(res, w, "strs")
    /\ UNCHANGED <<builder, aioVars, ctrlVars, descVars, ffsVars, gadgetVars, moreVars>>

\* strs.to_bytes()? and the write of the strings
InitWriteStrings ==
    /\ reg.pc = "strs"
    /\ \E order \in Orders(DOMAIN BuilderFfsDescs.strs) :
          LET res == StringsToBytes(BuilderFfsDescs.strs, order)
          IN \E w \in WriteResults(Len(res.data)) : InitWrite(res, w, "endpoints")
    /\ UNCHANGED <<builder, aioVars, ctrlVars, descVars, ffsVars, gadgetVars, moreVars>>

\* Open endpoint files, one turn of the loop:
\*   endpoint_num += 1;
\*   let (ep_io, ep_file) = EndpointIo::new(ep_path, ep.direction.queue_len)?;
\*   ep.direction.tx.send(ep_io).unwrap(); ep_files.push(ep_file);
\* EndpointIo::new fails when the file cannot be opened or aio::Driver::new fails.
InitOpenEndpoint ==
    /\ reg.pc = "endpoints"
    /\ reg.endpoint_num < NumEndpoints
    /\ \/ reg' = [reg EXCEPT !.pc = "failed", !.ret = "OsError", !.endpoint_num = @ + 1]
       \/ LET ep == AllEndpoints[reg.endpoint_num + 1]
          IN reg' = [reg EXCEPT !.endpoint_num = @ + 1, !.sent = @ \cup {reg.endpoint_num + 1},
                                !.ep_files = Append(@, [path |-> reg.endpoint_num + 1,
                                                        queue_len |-> ep.queue_len,
                                                        direction |-> ep.direction])]
    /\ UNCHANGED <<builder, aioVars, ctrlVars, descVars, ffsVars, gadgetVars, moreVars>>

\* Provide endpoint 0 file, after the loop:
\*   self.ep0_tx.send(Arc::downgrade(&ep0)).unwrap(); ep_files.push(ep0);
\*   *self.ep_files.lock().unwrap() = ep_files;
\*   self.ffs_dir_tx.send(ffs_dir).unwrap(); Ok(())
InitProvideEp0 ==
    /\ reg.pc = "endpoints"
    /\ reg.endpoint_num = NumEndpoints
    /\ reg' = [reg EXCEPT !.pc = "done", !.ret = "Ok", !.ep0_sent = TRUE]
    /\ UNCHANGED <<builder, aioVars, ctrlVars, descVars, ffsVars, gadgetVars, moreVars>>

(***************************************************************************)
(* Part VI: Gadget, RegGadget and the registration state of the functions  *)
(* (gadget.rs, function/util.rs).  Every gadget keeps the directory it was *)
(* registered at; remove_all works on the handles registered() makes, which*)
(* are not attached and know no functions.                                 *)
(***************************************************************************)

\* the function handles and the gadget definitions of the program: the
\* definition of g1 holds f1 and f2, that of g2 a clone of the handle f1
Funcs == {"f1", "f2"}
Gadgets == {"g1", "g2"}
Functions(g) == IF g = "g1" THEN {"f1", "f2"} ELSE {"f1"}

\* FunctionDirInner::default()
NoDir == [dir |-> <<>>, dir_was_set |-> FALSE, bound |-> FALSE]

NoRemoval == [op |-> "none", g |-> "none", func_dirs |-> {}, pre |-> {}, reset |-> {},
              post |-> {}, failed |-> FALSE, reported |-> FALSE, visited |-> {},
              dirs |-> {}, runs |-> 0, attached |-> FALSE]

InitGadget ==
    /\ funcs = [f \in Funcs |-> NoDir]
    /\ gadgets = [g \in Gadgets |-> [defined |-> TRUE, handle |-> "none", dir |-> <<>>,
                                     attached |-> FALSE, func_dirs |-> {}, detached |-> FALSE, removed |-> FALSE,
                                     completed |-> 0]]
    /\ configfs = {}
    /\ removal = NoRemoval
    /\ status = [f \in Funcs |-> [removed |-> FALSE, last |-> "none"]]

\* Status::state
State(inner) ==
    CASE inner.dir = <<>> /\ ~inner.dir_was_set -> "Unregistered"
      [] inner.dir = <<>> /\ inner.dir_was_set -> "Removed"
      [] inner.dir # <<>> /\ ~inner.bound -> "Registered"
      [] inner.dir # <<>> /\ inner.bound -> "Bound"

\* FunctionDir::set_dir, reset_dir and set_bound
set_dir(inner, function_dir) == [inner EXCEPT !.dir = <<function_dir>>, !.dir_was_set = TRUE]
reset_dir(inner) == [inner EXCEPT !.dir = <<>>]
set_bound(inner, bound) == [inner EXCEPT !.bound = bound]

\* the state of the functions, the gadgets and configfs, and the record of
\* the removal that is being carried out
Now == [funcs |-> funcs, gadgets |-> gadgets, configfs |-> configfs, removal |-> removal]

\* Where do_remove may fail: at pre_removal or post_removal of the i-th
\* function it visits, or in remove_at.
FailPoints(n) ==
    {[at |-> "none", i |-> 0], [at |-> "remove_at", i |-> 0]}
    \cup {[at |-> a, i |-> i] : a \in {"pre", "post"}, i \in 1 .. n}

\* the first n elements of the sequence q, as a set
Prefix(q, n) == {q[i] : i \in 1 .. n}

\* a do_remove that leaves the handle attached
do_removeKeepingAttached(st, g, order, fail) ==
    [st EXCEPT !.configfs = @ \ {st.gadgets[g].dir[1]},
               !.removal.runs = @ + 1,
               !.funcs = [f \in Funcs |-> IF f \in st.gadgets[g].func_dirs
                                             THEN reset_dir(set_bound(@[f], FALSE)) ELSE @[f]],
               !.gadgets[g].completed = @ + 1,
               !.removal.pre = @ \cup st.gadgets[g].func_dirs,
               !.removal.reset = @ \cup st.gadgets[g].func_dirs,
               !.removal.post = @ \cup st.gadgets[g].func_dirs]

\* RegGadget::do_remove of the handle of g in the state st; self.func_dirs is
\* visited in `order`, and the call fails at `fail`:
\*   for func in func_dirs.keys() { func.get().pre_removal()?; }
\*   for func in func_dirs.keys() { func.get().dir().set_bound(false); }
\*   remove_at(&self.dir)?;
\*   for func in func_dirs.keys() { func.get().dir().reset_dir(); }
\*   for (func, dir) in &self.func_dirs { func.get().post_removal(dir)?; }
\*   self.detach(); Ok(())
\* remove_at fails when the directory self.dir does not exist.
do_remove(st, g, order, fail) ==
    LET fd == st.gadgets[g].func_dirs
        dir == st.gadgets[g].dir[1]
        unbound == [f \in Funcs |-> IF f \in fd THEN set_bound(st.funcs[f], FALSE)
                                    ELSE st.funcs[f]]
    IN IF fail.at = "pre"
          THEN [st EXCEPT !.removal.pre = @ \cup Prefix(order, fail.i),
                          !.removal.runs = @ + 1,
                          !.removal.failed = TRUE]
       ELSE IF fail.at = "remove_at" \/ dir \notin st.configfs
          THEN [st EXCEPT !.funcs = unbound,
                          !.removal.runs = @ + 1,
                          !.removal.pre = @ \cup fd,
                          !.removal.failed = TRUE]
       ELSE IF fail.at = "post"
          THEN [st EXCEPT !.funcs = [f \in Funcs |-> IF f \in fd THEN reset_dir(unbound[f])
                                                     ELSE unbound[f]],
                          !.configfs = @ \ {dir},
                          !.removal.runs = @ + 1,
                          !.removal.pre = @ \cup fd,
                          !.removal.reset = @ \cup fd,
                          !.removal.post = @ \cup Prefix(order, fail.i),
                          !.removal.failed = TRUE]
       ELSE [st EXCEPT !.funcs = [f \in Funcs |-> IF f \in fd THEN reset_dir(unbound[f])
                                                  ELSE unbound[f]],
                       !.configfs = @ \ {dir},
                       !.removal.runs = @ + 1,
                       !.gadgets[g].attached = FALSE,
                       !.gadgets[g].completed = @ + 1,
                       !.removal.pre = @ \cup fd,
                       !.removal.reset = @ \cup fd,
                       !.removal.post = @ \cup fd]

\* Drop::drop for RegGadget in the state st:
\*   if self.attached { if let Err(err) = self.do_remove() { log::warn!(..) } }
drop_gadget(st, g, order, fail) ==
    LET after == IF st.gadgets[g].attached THEN do_remove(st, g, order, fail) ELSE st
    IN [after EXCEPT !.gadgets[g].handle = "gone",
                     !.removal.attached = st.gadgets[g].attached,
                     !.removal.reported = @ \/ after.removal.failed]

\* the record of a removal that begins
Begin(st, op, g) ==
    [st EXCEPT !.removal = [NoRemoval EXCEPT !.op = op, !.g = g,
                                             !.func_dirs = st.gadgets[g].func_dirs]]

\* the state st becomes the state of the next step
Becomes(st) ==
    /\ funcs' = st.funcs
    /\ gadgets' = st.gadgets
    /\ configfs' = st.configfs
    /\ removal' = st.removal

\* the directory usb-gadget{gadget_idx} that Gadget::register creates: the
\* first index at which fs::create_dir does not find a directory
GadgetDirs == 0 .. Cardinality(Gadgets) - 1
FreeDir == CHOOSE d \in GadgetDirs : d \notin configfs /\ \A e \in 0 .. d - 1 : e \in configfs

\* Gadget::register(self).  It fails before it has made the directory of the
\* gadget; or it has made the directory and fails after set_dir for the
\* functions of S (func.get().dir().set_dir(&func_dir); func.get().register()?);
\* or it returns RegGadget { dir, attached: true, func_dirs }.
RegisterGadget ==
    /\ api = "Gadget"
    /\ \E g \in Gadgets :
          /\ gadgets[g].defined
          /\ \/ /\ gadgets' = [gadgets EXCEPT ![g].defined = FALSE]
                /\ UNCHANGED <<funcs, configfs>>
             \/ \E S \in SUBSET Functions(g), ok \in BOOLEAN :
                   /\ ok => S = Functions(g)
                   /\ funcs' = [f \in Funcs |-> IF f \in S THEN set_dir(funcs[f], FreeDir)
                                                  ELSE funcs[f]]
                   /\ configfs' = configfs \cup {FreeDir}
                   /\ gadgets' = [gadgets EXCEPT ![g].defined = FALSE,
                                                 ![g].handle = IF ok THEN "held" ELSE "none",
                                                 ![g].dir = IF ok THEN <<FreeDir>> ELSE <<>>,
                                                 ![g].attached = ok,
                                                 ![g].func_dirs = IF ok THEN S ELSE {}]
    /\ UNCHANGED <<removal, status, aioVars, ctrlVars, descVars, ffsVars, regVars, moreVars>>

\* RegGadget::bind(udc): the write to the UDC file fails (for None, ENODEV
\* counts as success), or set_bound(udc.is_some()) for every function.
Bind ==
    \E g \in Gadgets, udc \in BOOLEAN :
        /\ gadgets[g].handle = "held"
        /\ \/ UNCHANGED funcs
           \/ /\ gadgets[g].dir[1] \in configfs
              /\ funcs' = [f \in Funcs |-> IF f \in gadgets[g].func_dirs
                                              THEN set_bound(funcs[f], udc) ELSE funcs[f]]
        /\ UNCHANGED <<gadgets, configfs, removal, status, aioVars, ctrlVars, descVars,
                       ffsVars, regVars, moreVars>>

\* RegGadget::detach
Detach ==
    \E g \in Gadgets :
        /\ gadgets[g].handle = "held"
        /\ gadgets' = [gadgets EXCEPT ![g].attached = FALSE, ![g].detached = TRUE]
        /\ UNCHANGED <<funcs, configfs, removal, status, aioVars, ctrlVars, descVars,
                       ffsVars, regVars, moreVars>>

\* RegGadget::remove(mut self): self.do_remove(), whose result is returned, and
\* then self is dropped.
Remove ==
    \E g \in Gadgets :
        /\ gadgets[g].handle = "held"
        /\ \E order \in Orders(gadgets[g].func_dirs) :
           \E fail1, fail2 \in FailPoints(Len(order)) :
              LET st == do_remove(Begin(Now, "remove", g), g, order, fail1)
                  ok == ~st.removal.failed
              IN Becomes(drop_gadget([st EXCEPT !.gadgets[g].removed = ok,
                                         !.removal.reported = st.removal.failed],
                              g, order, fail2))
        /\ UNCHANGED <<status, aioVars, ctrlVars, descVars, ffsVars, regVars, moreVars>>

\* a RegGadget goes out of scope
DropGadget ==
    \E g \in Gadgets :
        /\ gadgets[g].handle = "held"
        /\ \E order \in Orders(gadgets[g].func_dirs) :
           \E fail \in FailPoints(Len(order)) :
              Becomes(drop_gadget(Begin(Now, "drop", g), g, order, fail))
        /\ UNCHANGED <<status, aioVars, ctrlVars, descVars, ffsVars, regVars, moreVars>>

\* remove_all: registered()? fails, or every gadget directory is removed through
\* a handle RegGadget { dir, attached: false, func_dirs: HashMap::new() }; the
\* gadgets of F are those whose removal fails:
\*   for gadget in registered()? { if let Err(err) = gadget.remove() { res = Err(err); } }
RemoveAll ==
    /\ api = "Gadget"
    /\ \/ /\ removal' = [NoRemoval EXCEPT !.op = "remove_all", !.dirs = configfs,
                                          !.reported = TRUE]
          /\ UNCHANGED configfs
       \/ \E F \in SUBSET configfs :
             /\ configfs' = F
             /\ removal' = [NoRemoval EXCEPT !.op = "remove_all", !.dirs = configfs,
                                             !.visited = configfs, !.failed = F # {},
                                             !.reported = F # {}]
    /\ UNCHANGED <<funcs, gadgets, status, aioVars, ctrlVars, descVars, ffsVars, regVars, moreVars>>

\* Status::state() is called for a function
StatusState ==
    /\ api = "Gadget"
    /\ \E f \in Funcs :
          /\ status[f].last # State(funcs[f])
          /\ status' = [status EXCEPT ![f] = [removed |-> @.removed \/ State(funcs[f]) = "Removed",
                                              last |-> State(funcs[f])]]
    /\ UNCHANGED <<funcs, gadgets, configfs, removal, aioVars, ctrlVars, descVars,
                   ffsVars, regVars, moreVars>>

(***************************************************************************)
(* Part VII: Driver::wait_completed and the worker's notify_one             *)
(***************************************************************************)

\* Notify::new(): no permit is stored and no task waits
InitTask == notify = [permit |-> FALSE, waiter |-> FALSE, woken |-> FALSE]

\* a notify_one that wakes a waiting task only and stores no permit
notify_oneWithoutPermit(n) ==
    IF n.waiter THEN [n EXCEPT !.waiter = FALSE, !.woken = TRUE] ELSE n

\* notify.notify_one() of tokio::sync::Notify: the waiting task is woken; when no
\* task waits, one permit is stored (a second call does not add a second one)
notify_one(n) ==
    IF n.waiter THEN [n EXCEPT !.waiter = FALSE, !.woken = TRUE]
                ELSE [n EXCEPT !.permit = TRUE]

taskUnchanged == <<next_id, cmd_ch, eventfd, disconnected, inflight, ring, wpc, active,
                   event_queue, api, file_open, call, cur, submitted, ncancel, ctrlVars,
                   descVars, ffsVars, regVars, gadgetVars, valueVars>>

\* The task submits an operation and the kernel accepts it (Driver::submit; the
\* command queue and the table of the worker are not followed here).
TaskSubmit ==
    /\ cpc = "idle"
    /\ ~is_full
    /\ next_id < MaxOps
    /\ inflight' = inflight \cup {next_id}
    /\ submitted' = submitted \cup {next_id}
    /\ next_id' = next_id + 1
    /\ space' = space - 1
    /\ UNCHANGED <<cmd_ch, done_ch, eventfd, disconnected, ring, wpc, active, event_queue,
                   api, file_open, call, cpc, ret, cur, reported, delivered, ncancel, hist,
                   ctrlVars, descVars, ffsVars, regVars, gadgetVars, moreVars>>

\* wait_completed() is called (send_async, recv_async, flush_async and fetch_async
\* call it).
WaitStart ==
    /\ cpc = "idle"
    /\ call' = "wait_completed"
    /\ Goto("is_empty", "none")
    /\ hist' = [NoHist EXCEPT !.sub0 = Cardinality(submitted), !.next0 = next_id,
                                !.space0 = space]
    /\ UNCHANGED <<space, next_id, cmd_ch, done_ch, eventfd, disconnected, inflight, ring,
                   wpc, active, event_queue, api, file_open, cur, submitted, reported,
                   delivered, ncancel, ctrlVars, laterVars>>

\* if self.is_empty() { return None; }
WaitIsEmpty ==
    /\ cpc = "is_empty"
    /\ IF is_empty THEN Return("None") ELSE Goto("try", "none")
    /\ UNCHANGED <<noRetr, taskUnchanged, moreVars>>

\* loop { if let Some(op) = self.try_completed() { return Some(op); } ...
WaitTry ==
    /\ cpc = "try"
    /\ IF done_ch # <<>>
          THEN Retrieve /\ Return("Some")
          ELSE Goto("notified", "none") /\ UNCHANGED noRetr
    /\ UNCHANGED <<taskUnchanged, moreVars>>

\* ... self.notify.notified().await; }: the first poll takes the stored permit,
\* or registers the task as the waiter and suspends it
WaitNotified ==
    /\ cpc = "notified"
    /\ IF notify.permit
          THEN notify' = [notify EXCEPT !.permit = FALSE] /\ Goto("try", "none")
          ELSE notify' = [notify EXCEPT !.waiter = TRUE] /\ Goto("suspended", "none")
    /\ hist' = [hist EXCEPT !.raced = @ \/ done_ch # <<>>]
    /\ UNCHANGED <<space, done_ch, delivered, reported, taskUnchanged>>

\* the woken task is polled again: notified() is ready and the loop goes round
WaitResume ==
    /\ cpc = "suspended"
    /\ notify.woken
    /\ notify' = [notify EXCEPT !.woken = FALSE]
    /\ Goto("try", "none")
    /\ hist' = [hist EXCEPT !.resumed = TRUE]
    /\ UNCHANGED <<space, done_ch, delivered, reported, taskUnchanged>>

\* The caller drops the future while it is suspended (select!, a timeout): the
\* waiter is removed, and a notification it had received is passed on, which
\* stores the permit as no other task waits.
WaitDrop ==
    /\ cpc = "suspended"
    /\ notify' = [permit |-> notify.permit \/ notify.woken, waiter |-> FALSE,
                  woken |-> FALSE]
    /\ call' = "none"
    /\ Goto("idle", "none")
    /\ hist' = NoHist
    /\ UNCHANGED <<space, next_id, cmd_ch, done_ch, eventfd, disconnected, inflight, ring,
                   wpc, active, event_queue, api, file_open, cur, submitted, reported,
                   delivered, ncancel, ctrlVars, descVars, ffsVars, regVars, gadgetVars, valueVars>>

\* try_completed() called by the user: it takes a completion and leaves the
\* permit of its notify_one behind
TaskTryCompleted ==
    /\ cpc = "idle"
    /\ done_ch # <<>>
    /\ Retrieve
    /\ UNCHANGED <<cpc, ret, taskUnchanged, moreVars>>

\* let _ = done_tx.send(op.complete(event)); of the worker, for an operation the
\* kernel completed or cancelled
WorkerSendOne ==
    /\ wpc = "wait"
    /\ \E id \in inflight, r \in Results :
        /\ done_ch' = DoneSend(done_ch, <<Complete([data |-> id, res |-> r])>>)
        /\ inflight' = inflight \ {id}
        /\ reported' = Append(reported, id)
    /\ wpc' = "notify"
    /\ UNCHANGED <<space, next_id, cmd_ch, eventfd, disconnected, ring, active, event_queue,
                   api, file_open, call, cpc, ret, cur, submitted, delivered, ncancel, hist,
                   ctrlVars, laterVars>>

\* notify.notify_one(); that follows each done_tx.send
WorkerNotify ==
    /\ wpc = "notify"
    /\ notify' = notify_one(notify)
    /\ wpc' = "wait"
    /\ UNCHANGED <<space, next_id, cmd_ch, done_ch, eventfd, disconnected, inflight, ring,
                   active, event_queue, api, file_open, call, cpc, ret, cur, submitted,
                   reported, delivered, ncancel, hist, ctrlVars, descVars, ffsVars, regVars,
                   gadgetVars, valueVars>>

(***************************************************************************)
(* Part VIII: value, the one-shot value channel (function/util.rs), and    *)
(* the sends of CustomFunction::init.  The values are the numbers of the   *)
(* registrations that made them.                                           *)
(***************************************************************************)

\* most calls of send on one channel
MaxSends == 3

\* value::channel(): Sender(Mutex::new(Some(tx))), Receiver(State::Receiving(rx))
NewChannel ==
    [tx |-> "Some", sender |-> "alive", connected |-> TRUE, queue |-> <<>>,
     rx |-> "Receiving", received |-> <<>>]

NoValueCall == [op |-> "none", ret |-> "none", val |-> <<>>, unwrap |-> "none",
           sent |-> <<>>, nsend |-> 0, dropped_unsent |-> FALSE, taken |-> FALSE,
           got |-> {}]

\* the channels a custom function with one endpoint sends on: that of the
\* endpoint (EndpointDirection::tx) and that of the control file (ep0_tx)
Channels == {"ep1", "ep0"}

InitValue ==
    /\ chan = [c \in Channels |-> NewChannel]
    /\ vlast = [c \in Channels |-> NoValueCall]

\* a send that replaces the value when one was sent already
sendReplacing(ch, v) ==
    [ch |-> [ch EXCEPT !.tx = "None", !.connected = FALSE, !.queue = <<v>>,
                       !.received = IF ch.rx = "Received" THEN <<v>> ELSE @],
     ret |-> "Ok"]

\* value::Sender::send:
\*   match self.0.lock().unwrap().take() {
\*       Some(tx) => { let _ = tx.send(value); Ok(()) }     (tx is dropped here)
\*       None => Err(AlreadySentError) }
send(ch, v) ==
    IF ch.tx = "Some"
        THEN [ch |-> [ch EXCEPT !.tx = "None", !.connected = FALSE,
                                !.queue = Append(@, v)],
              ret |-> "Ok"]
        ELSE [ch |-> ch, ret |-> "AlreadySentError"]

\* rx.try_recv() on the mpsc channel
try_recv(ch) ==
    IF ch.queue # <<>> THEN [ret |-> "Ok", val |-> <<Head(ch.queue)>>]
    ELSE IF ch.connected THEN [ret |-> "Empty", val |-> <<>>]
    ELSE [ret |-> "Disconnected", val |-> <<>>]

\* value::Receiver::get:
\*   match &mut self.0 {
\*       State::Receiving(rx) => { let value = rx.get_mut().unwrap().try_recv()?;
\*                                 self.0 = State::Received(value); }
\*       State::Taken => return Err(RecvError::Taken),
\*       _ => () }
\*   Ok(value)
get(ch) ==
    CASE ch.rx = "Receiving" ->
            IF try_recv(ch).ret = "Ok"
                THEN [ch |-> [ch EXCEPT !.rx = "Received", !.received = try_recv(ch).val,
                                        !.queue = Tail(@)],
                      ret |-> "Ok", val |-> try_recv(ch).val]
                ELSE [ch |-> ch, ret |-> try_recv(ch).ret, val |-> <<>>]
      [] ch.rx = "Taken" -> [ch |-> ch, ret |-> "Taken", val |-> <<>>]
      [] OTHER -> [ch |-> ch, ret |-> "Ok", val |-> ch.received]

\* value::Receiver::take: self.get()?; mem::take(&mut self.0)
take(ch) ==
    IF get(ch).ret # "Ok" THEN get(ch)
    ELSE [ch |-> [get(ch).ch EXCEPT !.rx = "Taken", !.received = <<>>],
          ret |-> "Ok", val |-> get(ch).val]

\* From<RecvError> for io::Error
IoErrorKind(e) ==
    CASE e = "Empty" -> "WouldBlock"
      [] e = "Disconnected" -> "BrokenPipe"
      [] e = "Taken" -> "Other"
      [] OTHER -> e

valueUnchanged == <<aioVars, ctrlVars, descVars, ffsVars, regVars, gadgetVars, taskVars>>

\* the history of a channel after a call op that returned r on it
Called(h, op, r, v) ==
    [h EXCEPT !.op = op, !.ret = r.ret,
              !.unwrap = IF op # "init" THEN "none" ELSE IF r.ret = "Ok" THEN "Ok" ELSE "Panic",
              !.val = IF op \in {"send", "init"} THEN <<v>> ELSE r.val,
              !.sent = IF op \in {"send", "init"} /\ r.ret = "Ok" THEN Append(@, v) ELSE @,
              !.nsend = IF op \in {"send", "init"} THEN @ + 1 ELSE @,
              !.taken = @ \/ (op = "take" /\ r.ret = "Ok"),
              !.got = IF op \in {"get", "wait", "take"} /\ r.ret = "Ok"
                         THEN @ \cup {r.val[1]} ELSE @]

\* tx.send(value) called on the Sender of a channel
ValueSend ==
    /\ \E c \in Channels :
        /\ chan[c].sender = "alive"
        /\ vlast[c].nsend < MaxSends
        /\ LET r == send(chan[c], vlast[c].nsend + 1)
           IN /\ chan' = [chan EXCEPT ![c] = r.ch]
              /\ vlast' = [vlast EXCEPT ![c] = Called(@, "send", r, vlast[c].nsend + 1)]
    /\ UNCHANGED valueUnchanged

\* CustomFunction::init of a registration of the function:
\*   ep.direction.tx.send(ep_io).unwrap();              (for each endpoint)
\*   self.ep0_tx.send(Arc::downgrade(&ep0)).unwrap();
\* init panics at the first value that an earlier registration sent.
InitSend ==
    /\ \A c \in Channels : chan[c].sender = "alive" /\ vlast[c].nsend < MaxSends
    /\ LET r1 == send(chan["ep1"], vlast["ep1"].nsend + 1)
           r0 == send(chan["ep0"], vlast["ep0"].nsend + 1)
       IN IF r1.ret = "Ok"
             THEN /\ chan' = [chan EXCEPT !["ep1"] = r1.ch, !["ep0"] = r0.ch]
                  /\ vlast' = [vlast EXCEPT
                                  !["ep1"] = Called(@, "init", r1, vlast["ep1"].nsend + 1),
                                  !["ep0"] = Called(@, "init", r0, vlast["ep0"].nsend + 1)]
             ELSE /\ chan' = [chan EXCEPT !["ep1"] = r1.ch]
                  /\ vlast' = [vlast EXCEPT
                                  !["ep1"] = Called(@, "init", r1, vlast["ep1"].nsend + 1)]
    /\ UNCHANGED valueUnchanged

\* The Sender of a channel is dropped (with the Endpoint or the CustomFunction
\* that owns it): the mpsc sender inside, if still there, is dropped with it.
ValueDropSender ==
    /\ \E c \in Channels :
        /\ chan[c].sender = "alive"
        /\ chan' = [chan EXCEPT ![c] = [@ EXCEPT !.sender = "dropped", !.connected = FALSE,
                                                 !.tx = "None"]]
        /\ vlast' = [vlast EXCEPT ![c] = [@ EXCEPT !.op = "drop", !.ret = "none", !.val = <<>>,
                                                   !.unwrap = "none",
                                                   !.dropped_unsent = chan[c].tx = "Some"]]
    /\ UNCHANGED valueUnchanged

\* rx.get() called on the Receiver of a channel
ValueGet ==
    /\ \E c \in Channels :
        /\ chan' = [chan EXCEPT ![c] = get(@).ch]
        /\ vlast' = [vlast EXCEPT ![c] = Called(@, "get", get(chan[c]), 0)]
    /\ UNCHANGED valueUnchanged

\* rx.wait(): recv() blocks while the channel is empty and the sender is alive
\*   if let State::Receiving(rx) = &mut self.0 {
\*       let value = rx.get_mut().unwrap().recv()?; self.0 = State::Received(value); }
\*   self.get()
ValueWait ==
    /\ \E c \in Channels :
        /\ chan[c].rx = "Receiving" => try_recv(chan[c]).ret # "Empty"
        /\ chan' = [chan EXCEPT ![c] = get(@).ch]
        /\ vlast' = [vlast EXCEPT ![c] = Called(@, "wait", get(chan[c]), 0)]
    /\ UNCHANGED valueUnchanged

\* rx.take() called on the Receiver of a channel
ValueTake ==
    /\ \E c \in Channels :
        /\ chan' = [chan EXCEPT ![c] = take(@).ch]
        /\ vlast' = [vlast EXCEPT ![c] = Called(@, "take", take(chan[c]), 0)]
    /\ UNCHANGED valueUnchanged

(***************************************************************************)
(* Specifications                                                          *)
(***************************************************************************)

Init == InitAio /\ InitCtrl /\ InitDescs /\ InitFfs /\ InitReg /\ InitGadget /\ InitTask /\ InitValue

\* the reactor driven through the methods of aio::Driver
NextDriver ==
    \/ CallStart
    \/ CallReturn
    \/ Completed
    \/ CompletedTimeout
    \/ TryCompleted
    \/ SubmitInsert
    \/ SubmitKernel
    \/ SubmitWake
    \/ CancelSend
    \/ CancelWake
    \/ DropFields
    \/ Worker
    \/ KernelComplete

InitDriver == Init /\ api = "Driver"

SpecAio == InitDriver /\ [][NextDriver]_vars

\* The worker thread is scheduled and the kernel finishes what it accepted; the
\* thread that owns the reactor may stop calling at any time.
NextDriverFew ==
    \/ CallStartFew
    \/ CallReturn
    \/ Completed
    \/ CompletedTimeout
    \/ TryCompleted
    \/ SubmitInsert
    \/ SubmitKernel
    \/ SubmitWake
    \/ CancelSend
    \/ CancelWake
    \/ DropFields
    \/ Worker
    \/ KernelComplete

SpecAioFair ==
    /\ InitDriver
    /\ [][NextDriverFew]_vars
    /\ WF_vars(Worker)
    /\ WF_vars(KernelComplete)

\* the reactor of an endpoint driven through the methods of EndpointSender
NextSender ==
    \/ CallStart
    \/ CallReturn
    \/ Ready
    \/ ReadyTimeout
    \/ TryReady
    \/ Flush
    \/ FlushTimeout
    \/ SubmitInsert
    \/ SubmitKernel
    \/ SubmitWake
    \/ CancelSend
    \/ CancelWake
    \/ DropFields
    \/ CancelDrain
    \/ Worker
    \/ KernelComplete
    \/ CloseFiles

InitSender == Init /\ api = "EndpointSender"

SpecSender == InitSender /\ [][NextSender]_vars

\* the reactor of an endpoint driven through the methods of EndpointReceiver
NextReceiver ==
    \/ CallStart
    \/ CallReturn
    \/ RecvIsReady
    \/ RecvTimeoutIsReady
    \/ Fetch
    \/ FetchTimeout
    \/ TryFetch
    \/ SubmitInsert
    \/ SubmitKernel
    \/ SubmitWake
    \/ CancelSend
    \/ CancelWake
    \/ DropFields
    \/ CancelDrain
    \/ Worker
    \/ KernelComplete
    \/ CloseFiles

InitReceiver == Init /\ api = "EndpointReceiver"

SpecReceiver == InitReceiver /\ [][NextReceiver]_vars

\* the reactor of an endpoint (sender or receiver) whose caller enqueues without
\* waiting, polls and cancels
NextPolling ==
    \/ CallStartPolling
    \/ CallReturn
    \/ TryReady
    \/ TryFetch
    \/ SubmitInsert
    \/ SubmitKernel
    \/ SubmitWake
    \/ CancelSend
    \/ CancelWake
    \/ DropFields
    \/ CancelDrain
    \/ Worker
    \/ KernelComplete
    \/ CloseFiles

InitEndpoint == Init /\ api \in {"EndpointSender", "EndpointReceiver"}

\* cancel_all followed by the draining loop, as run by cancel()
Cancel == CancelSend \/ CancelWake \/ CancelDrain

\* The worker thread is scheduled, the kernel reports an outcome for every
\* operation it accepted, and a thread that called cancel() keeps running it.
SpecCancelFair ==
    /\ InitEndpoint
    /\ [][NextPolling]_vars
    /\ WF_vars(Worker)
    /\ WF_vars(KernelComplete)
    /\ WF_vars(Cancel)

\* the control endpoint
NextCtrl ==
    \/ Register
    \/ DropFunction
    \/ Close
    \/ Fd
    \/ EndpointFd
    \/ Event
    \/ TryEvent
    \/ EventTimeout
    \/ Send
    \/ Recv
    \/ Halt
    \/ Drop
    \/ Forget

InitCustom == Init /\ api = "Custom"

SpecCtrl == InitCustom /\ [][NextCtrl]_vars

\* the descriptors of a builder
NextBuilder ==
    \/ WithInterface
    \/ FfsDescriptors

InitBuilder == Init /\ api = "CustomBuilder"

SpecBuilder == InitBuilder /\ [][NextBuilder]_vars

\* the reactor of an endpoint driven through the methods of its handle, an
\* EndpointSender or an EndpointReceiver
NextEndpoint ==
    \/ CallStart
    \/ CallReturn
    \/ Ready
    \/ ReadyTimeout
    \/ TryReady
    \/ Flush
    \/ FlushTimeout
    \/ SubmitInsert
    \/ SubmitKernel
    \/ SubmitWake
    \/ CancelSend
    \/ CancelWake
    \/ DropFields
    \/ CancelDrain
    \/ Worker
    \/ KernelComplete
    \/ CloseFiles
    \/ RecvIsReady
    \/ RecvTimeoutIsReady
    \/ Fetch
    \/ FetchTimeout
    \/ TryFetch

SpecEndpoint == InitEndpoint /\ [][NextEndpoint]_vars

\* Strings::to_bytes applied to a string table
NextStrings ==
    \/ StringsToBytesCall

InitStrings == Init /\ api = "Strings"

SpecStrings == InitStrings /\ [][NextStrings]_vars

\* Descs::to_bytes applied to a descriptor set
NextDescs ==
    \/ DescsToBytesCall

InitDescSets == Init /\ api = "Descs"

SpecDescs == InitDescSets /\ [][NextDescs]_vars

\* an endpoint descriptor is encoded and a record is parsed
NextEndpointDesc ==
    \/ EndpointToBytesCall
    \/ EndpointParseCall

InitEndpointDesc == Init /\ api = "EndpointDesc"

SpecEndpointDesc == InitEndpointDesc /\ [][NextEndpointDesc]_vars

\* a raw event is read from the control file and decoded
NextEvent ==
    \/ ReadEventCall

InitEvent == Init /\ api = "Event"

SpecEvent == InitEvent /\ [][NextEvent]_vars

\* the registration of a custom function
NextInit ==
    \/ InitStart
    \/ InitOpen
    \/ InitWriteDescs
    \/ InitWriteStrings
    \/ InitOpenEndpoint
    \/ InitProvideEp0

InitCustomFunction == Init /\ api = "CustomFunction"

SpecInit == InitCustomFunction /\ [][NextInit]_vars

\* gadgets are registered, bound, detached, removed and dropped
NextGadget ==
    \/ RegisterGadget
    \/ Bind
    \/ Detach
    \/ Remove
    \/ DropGadget
    \/ RemoveAll
    \/ StatusState

\* a task that submits, awaits completions and polls, and the worker
NextTask ==
    \/ TaskSubmit
    \/ WaitStart
    \/ WaitIsEmpty
    \/ WaitTry
    \/ WaitNotified
    \/ WaitResume
    \/ WaitDrop
    \/ TaskTryCompleted
    \/ CallReturn
    \/ WorkerSendOne
    \/ WorkerNotify

InitAwait == Init /\ api = "Task"

\* The worker thread runs, the kernel completes what it accepted, and the
\* executor polls a task that is ready.
SpecTask ==
    /\ InitAwait
    /\ [][NextTask]_vars
    /\ WF_vars(WorkerSendOne)
    /\ WF_vars(WorkerNotify)
    /\ WF_vars(WaitIsEmpty)
    /\ WF_vars(WaitTry)
    /\ WF_vars(WaitNotified)
    /\ WF_vars(WaitResume)

\* a value channel, its owner and the registrations that send on it
NextValue ==
    \/ ValueSend
    \/ InitSend
    \/ ValueDropSender
    \/ ValueGet
    \/ ValueWait
    \/ ValueTake

InitChannel == Init /\ api = "Value"

SpecValue == InitChannel /\ [][NextValue]_vars

InitGadgets == Init /\ api = "Gadget"

SpecGadget == InitGadgets /\ [][NextGadget]_vars

(***************************************************************************)
(* Properties of the AIO reactor                                           *)
(***************************************************************************)

\* ids of the completed operations waiting in the completion channel
DoneIds == {done_ch[i].id : i \in 1 .. Len(done_ch)}

\* operations accepted by the kernel and not yet returned by a retrieval call
Outstanding == {id \in submitted : delivered[id] = 0}

RetrievalCalls == {"completed", "wait_completed", "completed_timeout", "try_completed"}

\* C1: every successfully submitted operation id is returned by the retrieval
\* calls at most once, and no id is returned that was not successfully
\* submitted, whatever the interleaving of submit, cancel_all, retrieval calls,
\* worker steps and kernel completions.
C1_NoDuplicateNoPhantom ==
    \A id \in Ids :
        /\ delivered[id] <= 1
        /\ delivered[id] > 0 => id \in submitted

\* C1 witness: two operations were retrieved after cancel_all had been called
\* and processed while they were submitted.
C1_Witness ==
    /\ ncancel > 0
    /\ delivered[0] = 1
    /\ delivered[1] = 1
    /\ cmd_ch = <<>>

\* the operation reached the completion channel or was returned already, or
\* the reactor is gone
Retrievable(id) == id \in DoneIds \/ delivered[id] > 0 \/ disconnected

\* the kernel still works on the operation, or its completion event is in
\* the completion ring or in the event_queue of the worker
Underway(id) ==
    \/ id \in inflight
    \/ \E i \in 1 .. Len(ring) : ring[i].data = id
    \/ \E i \in 1 .. Len(event_queue) : event_queue[i].data = id

\* C2: with the worker thread scheduled and the kernel finishing every accepted
\* operation, every successfully submitted operation eventually becomes
\* retrievable (it reaches the completion channel or was already returned) for
\* as long as the reactor exists, and a completed() blocked on a non-empty
\* reactor eventually finds a completed operation.  Being submitted, being
\* retrievable and the non-empty reactor of a blocked completed() persist, so
\* that "eventually" is: no behaviour stays forever in a state where a
\* submitted operation is not retrievable, or where completed() is blocked on
\* a non-empty reactor with an empty completion channel.  Until it is
\* retrievable, the operation or its completion event is never dropped.
C2_EventuallyRetrievable ==
    /\ [](\A id \in submitted : Retrievable(id) \/ Underway(id))
    /\ [][\A id \in Ids : /\ id \in submitted => id \in submitted'
                          /\ Retrievable(id) => Retrievable(id)']_vars
    /\ [][(cpc = "completed" /\ ~is_empty /\ cpc' = "completed") => ~is_empty']_vars
    /\ \A id \in Ids : []<>(id \in submitted => Retrievable(id))
    /\ []<>~(cpc = "completed" /\ ~is_empty /\ done_ch = <<>>)

\* C2 witness: the worker holds the fetched completion event of an operation
\* whose Insert command it has not processed yet.
C2_Witness ==
    /\ event_queue # <<>>
    /\ Head(event_queue).data \notin active
    /\ \E i \in 1 .. Len(cmd_ch) :
          cmd_ch[i] = [cmd |-> "Insert", id |-> Head(event_queue).data]

\* C6: after queue_length successful submissions and no retrieval the reactor
\* is full; a submit on a full reactor fails with WouldBlock and hands nothing
\* to the kernel; a retrieval from a full reactor frees exactly one slot, and a
\* successful submission takes exactly one slot, so that exactly one more
\* submission succeeds before the reactor is full again.
C6_Capacity ==
    /\ (Cardinality(submitted) = QueueLength /\ \A id \in Ids : delivered[id] = 0)
          => is_full
    /\ (cpc = "ret" /\ call = "submit" /\ hist.space0 = 0)
          => /\ ret = "WouldBlock"
             /\ next_id = hist.next0
             /\ Cardinality(submitted) = hist.sub0
             /\ is_full
    /\ (cpc = "ret" /\ call \in RetrievalCalls /\ ret \in {"SomeOk", "SomeErr"}
            /\ hist.space0 = 0)
          => space = 1
    /\ (cpc = "ret" /\ call = "submit" /\ ret = "Ok")
          => /\ space = hist.space0 - 1
             /\ Cardinality(submitted) = hist.sub0 + 1

\* C6 witness: the reactor was filled, one completion was retrieved, one more
\* submission succeeded, and the submission after that failed with WouldBlock.
C6_Witness ==
    /\ cpc = "ret"
    /\ call = "submit"
    /\ ret = "WouldBlock"
    /\ hist.space0 = 0
    /\ Cardinality(submitted) = QueueLength + 1
    /\ Cardinality(Outstanding) = QueueLength

\* C7: 0 <= space <= queue_length, and queue_length - space is the number of
\* operations successfully submitted and not yet returned by a retrieval call.
C7_SpaceAccounting ==
    /\ space \in 0 .. QueueLength
    /\ QueueLength - space = Cardinality(Outstanding)

\* C7 witness: try_completed returned the last outstanding operation, which
\* brought space back to queue_length, after the queue had been full.
C7_Witness ==
    /\ cpc = "ret"
    /\ call = "try_completed"
    /\ ret \in {"SomeOk", "SomeErr"}
    /\ space = QueueLength
    /\ Cardinality(submitted) = QueueLength

\* C8: the completed operations reach the completion channel in the order in
\* which the kernel reported their outcomes (a ring event when it was posted, a
\* synchronous cancel result when io_cancel returned).
C8_KernelOrder ==
    /\ Len(done_ch) <= Len(reported)
    /\ \A i \in 1 .. Len(done_ch) : done_ch[i].id = reported[i]

\* ids of the operations whose completion is on its way to the caller
Completing ==
    {ring[i].data : i \in 1 .. Len(ring)}
        \cup {event_queue[i].data : i \in 1 .. Len(event_queue)}
        \cup DoneIds

\* ids of the operations whose submission the kernel rejected
Rejected ==
    {id \in Ids : id < next_id /\ id \notin submitted /\ ~(cpc = "sub_kernel" /\ cur = id)}

\* number of commands cmd for operation id in the command channel
Queued(cmd, id) ==
    Cardinality({i \in 1 .. Len(cmd_ch) : cmd_ch[i] = [cmd |-> cmd, id |-> id]})

\* position of the command cmd for operation id in the command channel (0: none)
QueuedAt(cmd, id) ==
    IF Queued(cmd, id) > 0
        THEN CHOOSE i \in 1 .. Len(cmd_ch) : cmd_ch[i] = [cmd |-> cmd, id |-> id]
        ELSE 0

\* C17: when the kernel rejects a submission, submit returns the error
\* ("NotAccepted" is the WouldBlock error of a submission of which the kernel
\* accepted zero requests), space and the set of accepted operations are
\* unchanged, the operation is removed from the worker's table (a Remove command
\* is queued behind its Insert command for as long as the worker tracks it or
\* is still to insert it, and the worker never fails on it), and no completion
\* is ever delivered for its id.
C17_RejectedSubmission ==
    /\ (cpc = "ret" /\ call = "submit" /\ ret \in {"NotAccepted", "KernelErr"})
          => /\ space = hist.space0
             /\ Cardinality(submitted) = hist.sub0
             /\ cur \in Rejected
    /\ (cpc = "sub_wake" /\ ret # "Ok") => cur \in Rejected
    /\ \A id \in Rejected :
          /\ delivered[id] = 0
          /\ id \notin DoneIds
          /\ id \notin inflight \cup Completing
          /\ (id \in active \/ Queued("Insert", id) > 0)
                => /\ Queued("Remove", id) = 1
                   /\ QueuedAt("Remove", id) > QueuedAt("Insert", id)
          /\ (id \notin active /\ Queued("Insert", id) = 0) => Queued("Remove", id) = 0
    /\ wpc # "panic"

\* C17 witness: submit returned the kernel's error while another operation was
\* outstanding, and the worker has inserted and removed the rejected operation.
C17_Witness ==
    /\ cpc = "ret"
    /\ call = "submit"
    /\ ret = "KernelErr"
    /\ space = QueueLength - 1
    /\ cmd_ch = <<>>
    /\ cur \notin active
    /\ wpc = "wait"

\* C18: after the Driver was dropped the worker thread is never left blocked
\* in eventfd.read() with nothing that could wake it: the command channel
\* disconnected and empty, no tracked operation, nothing in flight in the kernel.
C18_WorkerNotStranded ==
    ~(/\ disconnected
      /\ wpc = "wait"
      /\ eventfd = 0
      /\ active = {}
      /\ cmd_ch = <<>>
      /\ inflight = {})

\* C19: every operation the kernel accepted and has not reported yet is owned
\* by the worker side, in the table `active` or as an Insert command waiting in
\* the command channel (which the worker's cmd_rx keeps alive), also after the
\* Driver was dropped; the worker thread, which holds the AIO context, neither
\* ends nor fails while such an operation exists.
C19_KernelOpsOwned ==
    /\ \A id \in inflight : id \in active \/ Queued("Insert", id) > 0
    /\ wpc \in {"exit", "panic"} => (inflight = {} /\ active = {} /\ cmd_ch = <<>>)
    /\ wpc # "panic"

\* C19 witness: the Driver has been dropped, the kernel did not cancel the
\* operation in flight, and the worker still tracks it.
C19_Witness ==
    /\ disconnected
    /\ cpc = "gone"
    /\ inflight # {}
    /\ inflight \subseteq active
    /\ cmd_ch = <<>>
    /\ wpc = "wait"

(***************************************************************************)
(* Properties of EndpointSender                                            *)
(***************************************************************************)

\* operations enqueued by the running method
Enqueued == Cardinality(submitted) - hist.sub0

SendReturned == cpc = "ret" /\ call \in {"send", "try_send"}

\* the failed operations the running method retrieved, without those that
\* were still in flight when the method called cancel_all
OperationErrors == hist.errs \ hist.cancelled

\* C9: a method other than cancel() (and drop) that retrieves the error of an
\* operation returns it: it retrieves at most one failed operation and then
\* returns that error, so that no error is dropped and the results of the
\* other queued operations stay retrievable.
C9_NoErrorDiscarded ==
    (cpc = "ret" /\ call # "cancel")
        => \/ OperationErrors = {}
           \/ Cardinality(OperationErrors) = 1 /\ ret = "OpErr"

FlushReturned == cpc = "ret" /\ call = "flush"

\* C11: after successful enqueues on an endpoint is_empty() is false until
\* every one of their completions has been retrieved; when flush() returns Ok
\* the queue is empty, every enqueued operation has been retrieved and none of
\* those flush retrieved had failed; when flush() returns an error it is the
\* error of the first failed completion it retrieved (it retrieved no other
\* failed one).
C11_FlushDrains ==
    /\ is_empty <=> Outstanding = {}
    /\ (FlushReturned /\ ret = "Ok")
          => /\ is_empty
             /\ hist.errs = {}
             /\ \A id \in submitted : delivered[id] = 1
    /\ (FlushReturned /\ ret # "Ok")
          => /\ ret = "OpErr"
             /\ Cardinality(hist.errs) = 1

\* C11 witness: flush was called on a full queue and returned Ok after it had
\* retrieved every operation.
C11_Witness ==
    /\ FlushReturned
    /\ ret = "Ok"
    /\ hist.space0 = 0
    /\ Cardinality(submitted) = QueueLength
    /\ is_empty

\* position of the Insert command of operation id in the command channel (0: none)
InsertAt(id) ==
    IF \E i \in 1 .. Len(cmd_ch) : cmd_ch[i] = [cmd |-> "Insert", id |-> id]
        THEN CHOOSE i \in 1 .. Len(cmd_ch) : cmd_ch[i] = [cmd |-> "Insert", id |-> id]
        ELSE 0

\* no queued CancelAll command will reach operation id
NotToBeCancelled(id) ==
    \A i \in 1 .. Len(cmd_ch) :
        cmd_ch[i].cmd = "CancelAll" => (id \notin active /\ InsertAt(id) > i)

TimedOutReturned ==
    cpc = "ret" /\ call \in {"flush_timeout", "ready_timeout"} /\ ret = "TimedOut"

\* C12: flush_timeout returns TimedOut exactly when a wait expired, and the
\* queue is then not empty (it returns Ok only on an empty queue); a
\* flush_timeout or ready_timeout that timed out has issued no cancel request,
\* and every operation it did not retrieve is still in flight in the kernel or
\* its completion is on its way, and no queued cancel request will reach it.
C12_TimeoutAbortsNothing ==
    /\ (cpc = "ret" /\ call = "flush_timeout")
          => /\ (ret = "TimedOut") <=> hist.timedout
             /\ ret = "TimedOut" => ~is_empty
             /\ ret = "Ok" => is_empty
    /\ (cpc = "ret" /\ call = "ready_timeout" /\ ret = "TimedOut")
          => (hist.timedout /\ is_full)
    /\ TimedOutReturned
          => /\ ncancel = hist.ncancel0
             /\ \A id \in Outstanding :
                   /\ id \in inflight \cup Completing
                   /\ id \in DoneIds \/ id \in active \/ InsertAt(id) > 0
                   /\ id \in inflight => NotToBeCancelled(id)

\* C12 witness: flush_timeout was called on a full queue, retrieved one
\* operation and timed out while the other one was still in flight.
C12_Witness ==
    /\ TimedOutReturned
    /\ call = "flush_timeout"
    /\ hist.space0 = 0
    /\ space = 1
    /\ inflight # {}

\* C15: a queue call made on an endpoint handle after the registration closed
\* the endpoint files returns the BrokenPipe (USB gadget was removed) failure
\* and submits nothing to the kernel.
C15_BrokenPipeAfterClose ==
    (cpc = "ret" /\ call \in SenderCalls /\ ~hist.open0)
        => /\ ret = "BrokenPipe"
           /\ Cardinality(submitted) = hist.sub0

(***************************************************************************)
(* Properties of EndpointReceiver                                          *)
(***************************************************************************)

\* C13: a timed receiver method whose wait expired returns a TimedOut error,
\* and fetch_timeout returns Ok(None) only when no receive buffer is enqueued.
C13_TimeoutReported ==
    /\ (cpc = "ret" /\ hist.timedout) => ret = "TimedOut"
    /\ (cpc = "ret" /\ call = "fetch_timeout" /\ ret = "None") => is_empty

CancelReturned == cpc = "ret" /\ call = "cancel"

\* C14: when cancel() of a sender or receiver returns, the queue is empty
\* (is_empty() and is_ready() hold), every operation enqueued before has been
\* retrieved and discarded by the cancel, and as no operation is ever retrieved
\* twice no later call observes one of them; and with the kernel reporting an
\* outcome for every operation in flight, cancel() returns: a call of cancel
\* ends only by returning, and no behaviour stays inside cancel forever.
C14_CancelEmpties ==
    /\ [](CancelReturned
            => /\ is_empty
               /\ ~is_full
               /\ done_ch = <<>>
               /\ ring = <<>> /\ event_queue = <<>> /\ inflight = {}
               /\ \A id \in submitted : delivered[id] = 1)
    /\ [](\A id \in Ids : delivered[id] <= 1)
    /\ [][(call = "cancel" /\ cpc # "ret") => call' = "cancel"]_vars
    /\ []<>~(call = "cancel" /\ cpc # "ret")

\* C14 witness: cancel() returned after it had been called on a full queue
\* with an operation still in flight in the kernel.
C14_Witness ==
    /\ CancelReturned
    /\ hist.space0 = 0
    /\ hist.cancelled # {}

(***************************************************************************)
(* Properties of the control endpoint                                      *)
(***************************************************************************)

EventCalls == {"event", "try_event", "event_timeout"}

\* the last call on the control endpoint read an event
EventRead == last.call \in EventCalls /\ last.event # "none"

\* every I/O of the sequence q succeeded
AllOk(q) == \A i \in 1 .. Len(q) : q[i].ok

\* C3: when an event is read after a SETUP event, exactly one answer or stall
\* was performed on the control file since the SETUP event was read (stated
\* for the runs in which no I/O on the control file failed in between).
C3_ExactlyOneAnswer ==
    (EventRead /\ prev.setup # "None" /\ AllOk(prev.io)) => Len(prev.io) = 1

\* C4: an event-retrieval call made while the state of an earlier SETUP is
\* still pending performs exactly one halt sequence of the pending direction
\* and then reads the event it delivers (stated for the runs in which no I/O
\* on the control file failed since the last event was read).
C4_HaltBeforeNextEvent ==
    (EventRead /\ last.pre # "None" /\ AllOk(prev.io))
        => /\ Len(last.io) = 2
           /\ last.io[1].op = HaltOp(last.pre)
           /\ last.io[2].op = "read_event"

\* C5: dropping an unused CtrlReceiver issues a 1-byte write on the control
\* file and dropping an unused CtrlSender a 1-byte read (while the control file
\* is open), the halt precedes every later read of an event, and after a
\* successful send, recv or halt the drop performs no I/O.
C5_DropToHalt ==
    /\ last.call = "drop"
          => (last.resp = "CtrlReceiver") = (last.pre = "HostToDevice")
    /\ (last.call = "drop" /\ last.open)
          => /\ Len(last.io) = 1
             /\ last.io[1].op = IF last.resp = "CtrlReceiver" THEN "write1" ELSE "read1"
    /\ (last.call \in {"send", "recv", "halt"} /\ last.ret = "Ok")
          => /\ Len(last.io) = 1
             /\ last.io[1].ok
    /\ (EventRead /\ prev.fate = "dropped")
          => /\ Len(prev.io) >= 1
             /\ prev.io[1].op = HaltOp(prev.setup)

\* C5 witness: an event was read after the receiver of a host-to-device SETUP
\* had been dropped unused, and the 1-byte write was issued in between.
C5_Witness ==
    /\ EventRead
    /\ prev.fate = "dropped"
    /\ prev.setup = "HostToDevice"
    /\ prev.io = Io("write1", TRUE)

\* the calls that need the device file
FileCalls == EventCalls \cup {"send", "recv", "halt", "fd", "endpoint_fd"}

\* the handle a call was made on
HandleOf(c) == IF c = "endpoint_fd" THEN "Endpoint" ELSE "Custom"

Members(a) == {n \in 0 .. (Len(interfaces) - 1) : interfaces[n + 1] = a}

\* the numbers of S are contiguous
Adjacent(S) == \A x \in S, y \in S : \A z \in x .. y : z \in S

\* C20: building the descriptors fails with the 'associated interfaces must be
\* adjacent' error if and only if the members of some association are not
\* numbered contiguously, and otherwise yields for every association one
\* descriptor whose range [first_interface, first_interface + interface_count)
\* is exactly the set of its member interface numbers.
C20_AssociationRanges ==
    descs.built =>
        /\ descs.err <=> \E a \in Associations : ~Adjacent(Members(a))
        /\ ~descs.err =>
              /\ DOMAIN descs.assocs = {a \in Associations : Members(a) # {}}
              /\ \A a \in DOMAIN descs.assocs :
                    Members(a) = descs.assocs[a].first_interface ..
                        (descs.assocs[a].first_interface + descs.assocs[a].interface_count - 1)

\* C25: what is_ready() (the negation of is_full) and is_empty() of an endpoint
\* return changes only in a step of a method called by the owner of the
\* endpoint; no step of the worker thread, no kernel completion and no closing
\* of the endpoint files changes it.
C25_OwnerChangesOnly ==
    [][(is_full' = is_full /\ is_empty' = is_empty)
          \/ (/\ ~(Worker \/ KernelComplete \/ CloseFiles)
              /\ call \in Calls /\ call' = call /\ cpc # "idle")]_vars

\* C25 witness: the queue is full and the kernel has finished one of its
\* operations, which the worker has passed on: is_ready() is still false.
C25_Witness ==
    /\ api \in {"EndpointSender", "EndpointReceiver"}
    /\ is_full
    /\ done_ch # <<>>
    /\ cpc = "idle"

(***************************************************************************)
(* Properties of the FunctionFS blobs                                      *)
(***************************************************************************)

\* index of the first NUL byte of b, 0 if it has none
FirstNul(b) ==
    IF \E i \in 1 .. Len(b) : b[i] = 0
        THEN CHOOSE i \in 1 .. Len(b) : b[i] = 0 /\ \A j \in 1 .. i - 1 : b[j] # 0
        ELSE 0

\* Reading n NUL-terminated strings from the front of b: the strings without
\* their terminators and the bytes that follow them.
RECURSIVE ReadStrings(_, _)
ReadStrings(b, n) ==
    IF n = 0 THEN [ok |-> TRUE, strs |-> <<>>, rest |-> b]
    ELSE IF FirstNul(b) = 0 THEN [ok |-> FALSE, strs |-> <<>>, rest |-> b]
    ELSE LET r == ReadStrings(SubSeq(b, FirstNul(b) + 1, Len(b)), n - 1)
         IN [ok |-> r.ok, strs |-> <<SubSeq(b, 1, FirstNul(b) - 1)>> \o r.strs, rest |-> r.rest]

\* Reading the string blob as its format is laid out: after the 16 bytes of the
\* header, for each of lang_count languages the language id (u16 LE) and then
\* str_count NUL-terminated strings; nothing may follow the last language.
RECURSIVE ReadLanguages(_, _, _)
ReadLanguages(b, str_count, lang_count) ==
    IF lang_count = 0 THEN [ok |-> b = <<>>, langs |-> <<>>]
    ELSE IF Len(b) < 2 THEN [ok |-> FALSE, langs |-> <<>>]
    ELSE LET r == ReadStrings(SubSeq(b, 3, Len(b)), str_count)
             t == ReadLanguages(r.rest, str_count, lang_count - 1)
         IN [ok |-> r.ok /\ t.ok,
             langs |-> <<[lang |-> from_le(SubSeq(b, 1, 2)), strs |-> r.strs]>> \o t.langs]

\* the string-count and language-count fields of the header of a string blob
StrCountField(data) == from_le(SubSeq(data, 9, 12))
LangCountField(data) == from_le(SubSeq(data, 13, 16))

\* the languages of the table have one common number of strings
EqualCounts(table) == \A l1, l2 \in DOMAIN table : Len(table[l1]) = Len(table[l2])

\* C21: Strings::to_bytes fails with the "string count differs across
\* languages" error whenever two languages of the table have different string
\* counts; for every table with equal counts the header's string-count and
\* language-count fields equal the table's, and the blob carries for each
\* language, after its language id, exactly str_count NUL-terminated strings:
\* the strings of that language in index order.
C21_StringTable ==
    output.fn = "Strings::to_bytes" =>
        LET table == input.table
            res == output.res
            read == ReadLanguages(SubSeq(res.data, 17, Len(res.data)),
                                  StrCountField(res.data), LangCountField(res.data))
        IN /\ ~EqualCounts(table) => res = Err("StringsDifferAcrossLanguages")
           /\ EqualCounts(table) =>
                 /\ res.ok
                 /\ LangCountField(res.data) = Cardinality(DOMAIN table)
                 /\ \A lang \in DOMAIN table : StrCountField(res.data) = Len(table[lang])
                 /\ read.ok
                 /\ read.langs = [i \in 1 .. Len(output.order) |->
                                    [lang |-> LangId(output.order[i]),
                                     strs |-> table[output.order[i]]]]

\* Reading n descriptor records from the front of b, each as long as its first
\* byte says.
RECURSIVE ReadRecords(_, _)
ReadRecords(b, n) ==
    IF n = 0 THEN [ok |-> TRUE, recs |-> <<>>, rest |-> b]
    ELSE IF b = <<>> \/ b[1] = 0 \/ b[1] > Len(b) THEN [ok |-> FALSE, recs |-> <<>>, rest |-> b]
    ELSE LET r == ReadRecords(SubSeq(b, b[1] + 1, Len(b)), n - 1)
         IN [ok |-> r.ok, recs |-> <<SubSeq(b, 1, b[1])>> \o r.recs, rest |-> r.rest]

\* the u32 length of the OS-descriptor record at the front of b (bytes 1..5)
OsLength(b) == from_le(SubSeq(b, 2, 5))

\* Reading n OS-descriptor records from the front of b, each as long as its u32
\* length says.
RECURSIVE ReadOsRecords(_, _)
ReadOsRecords(b, n) ==
    IF n = 0 THEN [ok |-> TRUE, recs |-> <<>>, rest |-> b]
    ELSE IF Len(b) < 5 \/ OsLength(b) < 5 \/ OsLength(b) > Len(b)
        THEN [ok |-> FALSE, recs |-> <<>>, rest |-> b]
    ELSE LET r == ReadOsRecords(SubSeq(b, OsLength(b) + 1, Len(b)), n - 1)
         IN [ok |-> r.ok, recs |-> <<SubSeq(b, 1, OsLength(b))>> \o r.recs, rest |-> r.rest]

\* the descriptors of a descriptor set in the order of the blob
Descrs(d) == d.fs_descrs \o d.hs_descrs \o d.ss_descrs

\* length of the header of a descriptor blob: magic, length, flags, the eventfd
\* if there is one, and the four counts
DescsHeaderLen(d) == 12 + (IF d.eventfd = <<>> THEN 0 ELSE 4) + 16

\* a descriptor whose record, with its length byte, has more than 255 bytes
TooLong(desc) == 1 + Len(DescWrite(desc)) > 255

\* C22: for any descriptor set accepted by Descs::to_bytes the blob's
\* total-length field (bytes 4..8) equals the length of the blob, and the blob
\* is, after its header, the records of the descriptors and then of the OS
\* descriptors, where the first byte of every descriptor record and the u32
\* length of every OS-descriptor record is the size of that record: reading
\* the records by these lengths yields exactly what each descriptor wrote and
\* leaves nothing over.  A descriptor set with a record too long for its
\* length byte is rejected with the overflow error.
C22_LengthPrefixes ==
    output.fn = "Descs::to_bytes" =>
        LET d == input.descs
            res == output.res
            read == ReadRecords(SubSeq(res.data, DescsHeaderLen(d) + 1, Len(res.data)),
                                Len(Descrs(d)))
            os == ReadOsRecords(read.rest, Len(d.os_descrs))
        IN /\ (\E i \in 1 .. Len(Descrs(d)) : TooLong(Descrs(d)[i])) => res = Err("Overflow")
           /\ res.ok =>
                 /\ from_le(SubSeq(res.data, 5, 8)) = Len(res.data)
                 /\ read.ok /\ os.ok /\ os.rest = <<>>
                 /\ \A i \in 1 .. Len(Descrs(d)) :
                       /\ read.recs[i][1] = Len(read.recs[i])
                       /\ Tail(read.recs[i]) = DescWrite(Descrs(d)[i])
                 /\ \A i \in 1 .. Len(d.os_descrs) :
                       /\ OsLength(os.recs[i]) = Len(os.recs[i])
                       /\ os.recs[i][1] = d.os_descrs[i].interface
                       /\ SubSeq(os.recs[i], 6, Len(os.recs[i]))
                            = OsDescExtWrite(d.os_descrs[i].ext, output.bcd)

\* C22 witness: a descriptor set was accepted that has a record of 255 bytes,
\* the longest its length byte can express, a descriptor for each speed after
\* an eventfd, and an OS descriptor with a property.
C22_Witness ==
    /\ output.fn = "Descs::to_bytes"
    /\ output.res.ok
    /\ input.descs.eventfd # <<>>
    /\ \E i \in 1 .. Len(Descrs(input.descs)) : 1 + Len(DescWrite(Descrs(input.descs)[i])) = 255
    /\ input.descs.fs_descrs # <<>> /\ input.descs.hs_descrs # <<>>
    /\ \E i \in 1 .. Len(input.descs.os_descrs) :
          /\ input.descs.os_descrs[i].ext.kind = "ExtProp"
          /\ input.descs.os_descrs[i].ext.list # <<>>

\* C23: for every endpoint descriptor d, with or without the audio extension,
\* EndpointDesc::parse applied to the encoded record of d returns d (the
\* record has 7 bytes without and 9 bytes with the extension), and parse
\* rejects every record whose length byte is neither 7 nor 9 or whose type byte
\* is not 0x05.
C23_EndpointRoundTrip ==
    output.fn = "EndpointDesc::parse" =>
        /\ Len(output.encoded) = IF input.desc.audio = <<>> THEN 7 ELSE 9
        /\ output.data = output.encoded => output.res = Ok(input.desc)
        /\ (Len(output.data) >= 1 /\ output.data[1] \notin {7, 9}) => ~output.res.ok
        /\ (Len(output.data) >= 2 /\ output.data[2] # 5) => ~output.res.ok

\* C23 witness: the 9-byte record of a descriptor whose maximum packet size
\* needs both of its bytes was parsed.
C23_Witness ==
    /\ output.fn = "EndpointDesc::parse"
    /\ output.data = output.encoded
    /\ output.res.ok
    /\ input.desc.audio # <<>>
    /\ input.desc.max_packet_size = 512

(***************************************************************************)
(* Properties of the registration                                          *)
(***************************************************************************)

\* the protocol errors of a configuration
ProtocolErrors ==
    {"too many endpoints", "associated interfaces must be adjacent", "Overflow",
     "StringsDifferAcrossLanguages"}

\* C24: during init every protocol error of the configuration is reported
\* before any byte is written to the control file; a short write of the
\* descriptor or string blob fails the registration; and when init has failed,
\* no endpoint handle and no control-file handle has been sent to user code.
C24_InitFailures ==
    /\ reg.ret \in ProtocolErrors => reg.written = 0
    /\ reg.short => reg.pc = "failed" /\ reg.ret = "UnexpectedEof"
    /\ reg.pc = "failed" => reg.sent = {} /\ ~reg.ep0_sent


(***************************************************************************)
(* Properties of the removal of gadgets                                    *)
(***************************************************************************)

\* C26: when a step of the removal of a gadget fails, pre_removal, reset_dir
\* and post_removal are still carried out for all functions of the gadget and
\* the failure is reported; when the removal of a gadget fails in remove_all,
\* the other gadgets are still removed and the failure is reported.
C26_BestEffort ==
    /\ removal.op \in {"remove", "drop"} /\ removal.failed =>
          /\ removal.pre = removal.func_dirs
          /\ removal.reset = removal.func_dirs
          /\ removal.post = removal.func_dirs
          /\ removal.reported
    /\ removal.op = "remove_all" /\ removal.failed =>
          /\ removal.visited = removal.dirs
          /\ removal.reported

\* the part of C26 about remove_all and about reporting alone
C26_RemoveAllAndReport ==
    /\ removal.failed => removal.reported
    /\ removal.op = "remove_all" /\ removal.failed => removal.visited = removal.dirs

\* C27: once Status::state() has returned Removed for a function, every later
\* call returns Removed.
C27_RemovedAbsorbing ==
    \A f \in Funcs : status[f].removed => status[f].last = "Removed"

\* C28: a dropped RegGadget runs do_remove exactly if it is attached at that
\* moment; after detach() and after a remove() that succeeded it runs nothing;
\* do_remove of one handle completes at most once.
C28_DropRemovesIffAttached ==
    /\ removal.op = "drop" => (removal.runs = 1 <=> removal.attached) /\ removal.runs <= 1
    /\ removal.op = "remove" => (removal.runs = 2 <=> removal.attached) /\ removal.runs >= 1
    /\ removal.op = "drop" /\ gadgets[removal.g].detached => removal.runs = 0
    /\ removal.op = "remove" /\ gadgets[removal.g].removed => removal.runs = 1
    /\ \A g \in Gadgets : gadgets[g].completed <= 1

\* a remove() that succeeded, so that the drop after it found the handle
\* detached, and a remove() that failed and was retried by the drop
C28_Witness ==
    /\ removal.op = "remove"
    /\ gadgets[removal.g].removed
    /\ gadgets[removal.g].completed = 1
    /\ removal.pre = {"f1", "f2"}

C28_WitnessRetry ==
    /\ removal.op = "remove"
    /\ removal.runs = 2
    /\ gadgets[removal.g].completed = 1

C28_WitnessDetached ==
    /\ removal.op = "drop"
    /\ gadgets[removal.g].detached
    /\ removal.g = "g1"


(***************************************************************************)
(* Properties of the worker's table                                        *)
(***************************************************************************)

\* the event at the head of the worker's event FIFO matches no tracked operation
Unmatched == event_queue # <<>> /\ Head(event_queue).data \notin active

\* C29: the Insert command of an operation is in the command channel (or already
\* processed) when the kernel is handed the operation; whenever the event at the
\* head of the worker's event FIFO matches no tracked operation, the Insert for
\* its id is still in the command channel and a wake-up of the worker is
\* pending: the eventfd counter is positive, or the worker has consumed it and
\* is in its command loop.
C29_RegisterBeforeSubmit ==
    /\ cpc = "sub_kernel" => (Queued("Insert", cur) = 1 \/ cur \in active)
    /\ Unmatched =>
          /\ Queued("Insert", Head(event_queue).data) = 1
          /\ eventfd > 0 \/ wpc = "cmds"

\* C29 witness: the worker has fetched the event of an operation whose Insert
\* it has not processed yet and waits on the eventfd, which is signalled.
C29_Witness ==
    /\ Unmatched
    /\ wpc = "wait"
    /\ eventfd > 0
    /\ Queued("Insert", Head(event_queue).data) = 1

\* ids of the operations that exist: queued for insertion, tracked, in flight in
\* the kernel, or completed and not retrieved yet
Live ==
    {id \in Ids : Queued("Insert", id) > 0} \cup active \cup inflight \cup Completing

\* C30: the worker never fails an assertion.  The id the next submit hands out
\* differs from the id of every operation that exists; no queued Insert is for a
\* tracked id or for the id of another queued Insert; every queued Remove is for
\* a tracked id or follows the Insert for its id; every completed operation was
\* completed by an event with its own id: it was submitted under that id, has
\* left the table and is completed only once.
C30_AssertionsUnreachable ==
    /\ wpc # "panic"
    /\ next_id \notin Live
    /\ \A i \in 1 .. Len(cmd_ch) :
          /\ cmd_ch[i].cmd = "Insert" =>
                /\ cmd_ch[i].id \notin active
                /\ Queued("Insert", cmd_ch[i].id) = 1
          /\ cmd_ch[i].cmd = "Remove" =>
                \/ cmd_ch[i].id \in active
                \/ \E j \in 1 .. i - 1 : cmd_ch[j] = [cmd |-> "Insert", id |-> cmd_ch[i].id]
    /\ \A i \in 1 .. Len(done_ch) :
          /\ done_ch[i].id \in submitted \ active
          /\ \A j \in 1 .. Len(done_ch) : done_ch[j].id = done_ch[i].id => j = i

\* C30 witness: the worker has inserted and removed a rejected operation, has
\* completed another operation and still tracks a third one.
C30_Witness ==
    /\ wpc = "wait"
    /\ cmd_ch = <<>>
    /\ \E id \in Rejected : id \notin active
    /\ done_ch # <<>>
    /\ active # {}


(***************************************************************************)
(* Properties of the control endpoint: the record of the pending transfer  *)
(***************************************************************************)

\* the events that carry a response object
Setups == {"SetupDeviceToHost", "SetupHostToDevice"}

\* an answer or a halt I/O of the sequence io succeeded
Settling(io) ==
    \E i \in 1 .. Len(io) : io[i].ok /\ io[i].op \in {"write", "read", "read1", "write1"}

\* C31 without its last part: the direction is set from bit 0x80 of the
\* request type when a SETUP is decoded, is empty after a call in which an
\* answer or halt I/O succeeded and no SETUP was decoded, and is never set
\* otherwise.
C31_SetAndCleared ==
    /\ last.event = "SetupDeviceToHost" => setup_event = "DeviceToHost"
    /\ last.event = "SetupHostToDevice" => setup_event = "HostToDevice"
    /\ (last.call # "none" /\ last.event \notin Setups /\ Settling(last.io))
          => setup_event = "None"
    /\ (last.event \notin Setups /\ last.pre = "None") => setup_event = "None"

\* C31: setup_event holds the direction of the SETUP decoded last (device to
\* host exactly if bit 0x80 of request_type is set) for as long as no answer
\* and no halt I/O of it has succeeded: a call that decodes no SETUP and in
\* which no such I/O succeeds leaves it as it was, a call in which one
\* succeeds empties it.
C31_PendingDirection ==
    /\ C31_SetAndCleared
    /\ (last.call # "none" /\ last.event \notin Setups /\ ~Settling(last.io))
          => setup_event = last.pre


\* the number of I/Os of the sequence io whose operation is in ops
CountOps(io, ops) == Cardinality({i \in 1 .. Len(io) : io[i].op \in ops})

\* C32: when send or recv returns an I/O error the transfer is not marked
\* answered, and the drop of the response object at the end of the call
\* attempts the halt sequence of the direction of the transfer (a 1-byte read
\* for a CtrlSender, a 1-byte write for a CtrlReceiver) before any other call
\* can read an event; the direction is cleared exactly if that halt succeeded.
C32_FailedAnswerHalts ==
    (last.call \in {"send", "recv"} /\ last.ret = "Err") =>
        /\ pending.fate = "failed"
        /\ Len(last.io) = 2
        /\ last.io[1] = [op |-> IF last.call = "send" THEN "write" ELSE "read", ok |-> FALSE]
        /\ last.io[2].op = HaltOp(last.pre)
        /\ last.io[2].op = IF last.call = "send" THEN "read1" ELSE "write1"
        /\ setup_event = IF last.io[2].ok THEN "None" ELSE last.pre
        /\ CountOps(since, {"read_event"}) = 0
        /\ resp = "none"

\* C32 witness: a send failed and the halt at the drop of the CtrlSender
\* succeeded.
C32_Witness ==
    /\ last.call = "send"
    /\ last.ret = "Err"
    /\ last.io = Io("write", FALSE) \o Io("read1", TRUE)
    /\ setup_event = "None"

\* C33: one call of event(), try_event() or event_timeout() performs at most
\* one halt I/O and at most one read of an event, the halt before the read;
\* when one of them fails the call performs no further I/O, returns the error
\* and delivers no event.
C33_NoRetry ==
    last.call \in EventCalls =>
        /\ CountOps(last.io, {"read1", "write1"}) <= 1
        /\ CountOps(last.io, {"read_event"}) <= 1
        /\ Len(last.io) <= 2
        /\ Len(last.io) = 2 => last.io[1].op # "read_event" /\ last.io[2].op = "read_event"
        /\ \A i \in 1 .. Len(last.io) :
              ~last.io[i].ok => /\ i = Len(last.io)
                                /\ last.ret = "Err"
                                /\ last.event = "none"
                                /\ resp = "none"
        /\ last.ret = "Event" <=> last.event # "none"

\* C33 witness: the halt I/O of an event() failed, and no event was read.
C33_Witness ==
    /\ last.call = "event"
    /\ last.io = Io("read1", FALSE)
    /\ last.ret = "Err"

C33_WitnessRead ==
    /\ last.call = "try_event"
    /\ last.io = Io("write1", TRUE) \o Io("read_event", FALSE)
    /\ last.ret = "Err"


\* the variant Event::from_ffs makes of each of the event types 0 .. 6
VariantOf(tag) ==
    CASE tag = 0 -> "Bind"
      [] tag = 1 -> "Unbind"
      [] tag = 2 -> "Enable"
      [] tag = 3 -> "Disable"
      [] tag = 5 -> "Suspend"
      [] tag = 6 -> "Resume"
      [] OTHER -> "Unknown"

\* C34: a read of 12 bytes decodes the tags 0, 1, 2, 3, 5, 6 to Bind, Unbind,
\* Enable, Disable, Suspend, Resume and every tag other than 0 .. 6 to
\* Unknown(tag); none of them changes setup_event or creates a response object;
\* a read that yields other than 12 bytes returns InvalidData, changes no
\* state and delivers no event.
C34_DecodeLeavesState ==
    output.fn = "read_event" =>
        /\ input.n # 12 =>
              /\ output.res.ret = "InvalidData"
              /\ output.res.event = "none"
              /\ output.res.setup_event = input.se
              /\ output.res.resp = "none"
        /\ (input.n = 12 /\ input.event_type # 4) =>
              /\ output.res.ret = "Ok"
              /\ output.res.event = VariantOf(input.event_type)
              /\ output.res.tag = IF input.event_type \in 0 .. 6 THEN <<>>
                                                                 ELSE <<input.event_type>>
              /\ output.res.setup_event = input.se
              /\ output.res.resp = "none"
        /\ (input.n = 12 /\ input.event_type = 4) =>
              /\ output.res.event \in Setups
              /\ output.res.resp # "none"

\* C34 witness: an event of the unknown type 255 was decoded while the
\* direction of an earlier SETUP was pending.
C34_Witness ==
    /\ output.fn = "read_event"
    /\ output.res.event = "Unknown"
    /\ output.res.tag = <<255>>
    /\ input.se = "DeviceToHost"
    /\ output.res.setup_event = "DeviceToHost"

C34_WitnessShort ==
    /\ output.fn = "read_event"
    /\ input.n = 11
    /\ input.event_type = 4
    /\ output.res.ret = "InvalidData"


(***************************************************************************)
(* Properties of EndpointReceiver::recv and recv_timeout                   *)
(***************************************************************************)

\* a call of one of the methods of S has returned a result of R
Returned(S, R) == cpc = "ret" /\ call \in S /\ ret \in R

\* what C35 says of the methods of S: a call that returns Ok has enqueued buf
\* as exactly one new read that the kernel accepted and has fetched at most
\* one buffer; a call that returns the error of an earlier read has enqueued
\* nothing; at most QueueLength buffers are enqueued and not fetched.
RecvEnqueues(S) ==
    /\ Returned(S, {"None", "Some"}) =>
          /\ next_id = hist.next0 + 1
          /\ Cardinality(submitted) = hist.sub0 + 1
          /\ space \in {hist.space0 - 1, hist.space0}
          /\ ret = "None" => space = hist.space0 - 1
    /\ Returned(S, {"OpErr"}) =>
          /\ next_id = hist.next0
          /\ Cardinality(submitted) = hist.sub0
    /\ space \in 0 .. QueueLength
    /\ Cardinality(Outstanding) <= QueueLength

\* C35 for recv alone
C35_Recv == RecvEnqueues({"recv"})

\* C35: recv and recv_timeout that return Ok have enqueued buf as exactly one
\* new read operation and hand back at most one filled buffer; when they
\* return the error of an earlier read buf is not enqueued; the number of
\* buffers enqueued and not fetched never exceeds the queue length.
C35_RecvEnqueues == RecvEnqueues({"recv", "recv_timeout"})


(***************************************************************************)
(* Properties of the synchronous transfers with a timeout                  *)
(***************************************************************************)

\* what C36 says of the methods of S: a call whose timeout passed before the
\* transfer was finished has issued a cancel_all, returns the TimedOut error and
\* leaves the queue empty.
AbandonsCleanly(S) ==
    (cpc = "ret" /\ call \in S /\ hist.timedout) =>
        /\ ret = "TimedOut"
        /\ ncancel = hist.ncancel0 + 1
        /\ is_empty

\* C36 for the sender alone
C36_Sender == AbandonsCleanly({"send_and_flush_timeout"})

\* C36: send_and_flush_timeout and recv_and_fetch_timeout whose operation has
\* not completed when the timeout passes cancel the pending operations, return
\* an error and leave the queue of the endpoint empty.
C36_TimeoutAbandons == AbandonsCleanly({"send_and_flush_timeout", "recv_and_fetch_timeout"})


\* the task is inside wait_completed() and has not returned
Awaiting == call = "wait_completed" /\ cpc \in {"try", "notified", "suspended"}

\* the task is suspended in notified().await and nothing has woken it
Suspended == cpc = "suspended" /\ notify.waiter /\ ~notify.woken

\* C37 (safety): while the task is suspended with a completion in the channel,
\* the notify_one of that completion is still to come; wait_completed returns
\* None exactly when the reactor was empty at the call, without suspending.
C37_NeverMissed ==
    /\ (Suspended /\ done_ch # <<>>) => wpc = "notify"
    /\ Awaiting => ~is_empty
    /\ (cpc = "ret" /\ call = "wait_completed") =>
          /\ ret = "None" <=> hist.space0 = QueueLength
          /\ ret = "None" => space = hist.space0
          /\ ret = "Some" => space = hist.space0 + 1

\* C37: no wake-up is lost on the suspending path: C37_NeverMissed always
\* holds, and a task inside wait_completed with a completion in the channel
\* returns (or its future is dropped).
C37_NoLostWakeup ==
    /\ []C37_NeverMissed
    /\ (Awaiting /\ done_ch # <<>>) ~> (cpc = "ret" \/ call = "none")

\* the send of the worker fell between try_completed and notified().await, and the
\* task returned the completion
C37_Witness ==
    /\ cpc = "ret" /\ call = "wait_completed" /\ ret = "Some"
    /\ hist.raced

\* the task was suspended and the worker's notify_one resumed it
C37_WitnessSuspended ==
    /\ cpc = "ret" /\ call = "wait_completed" /\ ret = "Some"
    /\ hist.resumed


(***************************************************************************)
(* Properties of the endpoint numbers                                      *)
(***************************************************************************)

\* the endpoint descriptors of a descriptor list, in their order
EndpointDescsOf(list) == SelectSeq(list, LAMBDA d : d.kind = "Endpoint")

\* the address of the k-th endpoint of the configuration
AddressOf(k) == IF AllEndpoints[k].direction = "DeviceToHost" THEN k + 128 ELSE k

\* the endpoint descriptors of the list carry the addresses of endpoints 1, 2, ..
NumberedInOrder(list) ==
    LET eps == EndpointDescsOf(list)
    IN /\ Len(eps) = NumEndpoints
       /\ \A k \in 1 .. NumEndpoints : eps[k].endpoint_address = AddressOf(k)

\* C38: for every speed the endpoint descriptors carry the numbers 1, 2, 3, ..
\* in the order of declaration across the interfaces, with bit 0x80 set exactly
\* for the device-to-host endpoints; a configuration with 128 or more endpoints
\* is refused, and "too many endpoints" is reported for such a configuration
\* only; the k-th endpoint file that init opens is ep<k>, with the queue
\* length and for the handle of the k-th endpoint, and a registration that
\* succeeds has opened one file per endpoint.
C38_EndpointNumbering ==
    (api = "CustomFunction" /\ ~builder.ffs_no_init) =>
        /\ LET built == BuilderFfsDescs
           IN /\ NumEndpoints >= 128 => built.err # "none"
              /\ built.err = "too many endpoints" => NumEndpoints >= 128
              /\ built.err = "none" =>
                    /\ NumberedInOrder(built.descs.fs_descrs)
                    /\ NumberedInOrder(built.descs.hs_descrs)
                    /\ NumberedInOrder(built.descs.ss_descrs)
              /\ reg.ep_files # <<>> => built.err = "none"
        /\ \A k \in 1 .. Len(reg.ep_files) :
              reg.ep_files[k] = [path |-> k, queue_len |-> AllEndpoints[k].queue_len,
                                 direction |-> AllEndpoints[k].direction]
        /\ reg.pc = "done" => Len(reg.ep_files) = NumEndpoints

\* a configuration of two interfaces with endpoints of both directions is
\* registered
C38_Witness ==
    /\ reg.pc = "done"
    /\ Len(builder.interfaces) = 2
    /\ Len(reg.ep_files) = 3
    /\ reg.ep_files[2].direction = "HostToDevice"

\* 127 endpoints are registered
C38_WitnessMost ==
    /\ reg.pc = "done"
    /\ Len(reg.ep_files) = 127

\* the 128th endpoint is refused
C38_WitnessTooMany ==
    /\ reg.ret = "too many endpoints"
    /\ NumEndpoints = 128


(***************************************************************************)
(* Properties of the string table of a configuration                       *)
(***************************************************************************)

\* the string of a name in a language, empty when the name has none
NameIn(name, lang) == IF lang \in DOMAIN name THEN name[lang] ELSE <<>>

\* the descriptor d of the configuration points, in every language of the
\* table, at the string of the name
PointsAt(table, d, name) ==
    \A lang \in DOMAIN table :
        /\ d.name_idx \in 1 .. Len(table[lang])
        /\ table[lang][d.name_idx] = NameIn(name, lang)

\* C39 (table): the languages of the built table have one common string
\* count, and encoding it does not fail with the differs-across-languages
\* error.
C39_EqualCounts ==
    (api = "CustomFunction" /\ BuilderFfsDescs.err = "none") =>
        LET table == BuilderFfsDescs.strs
        IN /\ EqualCounts(table)
           /\ \A order \in Orders(DOMAIN table) :
                 StringsToBytes(table, order).err # "StringsDifferAcrossLanguages"

\* C39: C39_EqualCounts, and the name_idx of every interface descriptor and of
\* every association descriptor is the position of the name of that interface
\* or association in the list of every language.
C39_NameIndex ==
    (api = "CustomFunction" /\ BuilderFfsDescs.err = "none") =>
        LET built == BuilderFfsDescs
            fs == built.descs.fs_descrs
        IN /\ C39_EqualCounts
           /\ \A i \in 1 .. Len(fs) :
                 /\ fs[i].kind = "Interface" =>
                       PointsAt(built.strs, fs[i],
                                builder.interfaces[fs[i].interface_number + 1].name)
                 /\ fs[i].kind = "InterfaceAssoc" =>
                       PointsAt(built.strs, fs[i],
                                AssociationName(builder.interfaces[fs[i].first_interface + 1].association))


(***************************************************************************)
(* Properties of the value channel                                         *)
(***************************************************************************)

\* what every call of send returned on the channel c: Ok the first time,
\* AlreadySentError afterwards, and at most one value was accepted
SendsOnce(c) ==
    /\ Len(vlast[c].sent) <= 1
    /\ vlast[c].op \in {"send", "init"} =>
          vlast[c].ret = (IF vlast[c].nsend = 1 THEN "Ok" ELSE "AlreadySentError")
    /\ vlast[c].op = "init" => (vlast[c].unwrap = "Panic" <=> vlast[c].nsend > 1)

\* whatever the Receiver of c has handed out or holds is the first value sent
ObservesFirst(c) ==
    /\ vlast[c].got \subseteq {vlast[c].sent[i] : i \in 1 .. Len(vlast[c].sent)}
    /\ chan[c].received # <<>> => chan[c].received = <<vlast[c].sent[1]>>
    /\ Len(chan[c].queue) <= 1
    /\ vlast[c].got \subseteq {1}

C40_WitnessPanic ==
    /\ vlast["ep1"].op = "init" /\ vlast["ep1"].unwrap = "Panic"
    /\ chan["ep1"].received = <<1>>

\* get after the sender was dropped without sending
C40_WitnessDisconnected ==
    /\ vlast["ep0"].op = "get" /\ vlast["ep0"].ret = "Disconnected"

====
